---- MODULE Spec2Model ----
(***************************************************************************)
(* Model of the comic data reconciliation engine of                        *)
(* src/extract_comic_structure.py: the record classifier, the signal       *)
(* extractors (series-name normalisation, combo issue extraction, variant  *)
(* descriptor synthesis, code generation), the reconciliation loop         *)
(* organize_comic_data and the two projection formatters.                  *)
(*                                                                         *)
(* Conventions.                                                            *)
(*  - A Python str is a TLA+ string; characters are read with SubSeq.      *)
(*    The en dash (U+2013) is written "~", which like the en dash sorts    *)
(*    after every other character of the alphabet used here.               *)
(*  - A Python value that may be None is a sequence of length at most one: *)
(*    None is << >> and a value v is <<v>>.                                *)
(*  - A Python dict is a sequence of <<key, value>> pairs in insertion     *)
(*    order (dicts iterate in insertion order).                            *)
(*  - An item record is a function from the field names it has to their   *)
(*    values; a field the record lacks is not in its DOMAIN.               *)
(***************************************************************************)
EXTENDS Integers, Sequences, FiniteSets, TLC

(***************************************************************************)
(* Characters and strings                                                  *)
(***************************************************************************)
None == << >>
Some(v) == <<v>>

Ch(s, i) == IF i >= 1 /\ i <= Len(s) THEN SubSeq(s, i, i) ELSE ""

UpperChars == "ABCDEFGHIJKLMNOPQRSTUVWXYZ"
LowerChars == "abcdefghijklmnopqrstuvwxyz"
DigitChars == "0123456789"
\* the characters of the model in code point order ("~" is the en dash)
CharOrder == " !#&',-.0123456789:ABCDEFGHIJKLMNOPQRSTUVWXYZ_abcdefghijklmnopqrstuvwxyz~"

CharsOf(s) == {Ch(s, i) : i \in 1..Len(s)}
WhiteSpace == {" "}
Digits == CharsOf(DigitChars)
Dashes == {"-", "~"}
\* \w of the regular expressions: letters, digits and underscore
WordChars == CharsOf(UpperChars) \cup CharsOf(LowerChars) \cup Digits \cup {"_"}

Ord(c) == CHOOSE i \in 1..Len(CharOrder) : Ch(CharOrder, i) = c

UpperSet == CharsOf(UpperChars)
LowerOf == [c \in UpperSet |-> Ch(LowerChars, CHOOSE i \in 1..26 : Ch(UpperChars, i) = c)]

LowerCh(c) == IF c \in UpperSet THEN LowerOf[c] ELSE c

RECURSIVE Lower(_)
\* str.lower()
Lower(s) ==
    IF Len(s) <= 1 THEN LowerCh(s)
    ELSE Lower(SubSeq(s, 1, Len(s) \div 2)) \o Lower(SubSeq(s, Len(s) \div 2 + 1, Len(s)))

\* s[i:] starts with w
StartsAt(s, i, w) == i >= 1 /\ i + Len(w) - 1 <= Len(s) /\ SubSeq(s, i, i + Len(w) - 1) = w

\* w in s
Contains(s, w) == \E i \in 1..(Len(s) + 1) : StartsAt(s, i, w)

\* the last index of the maximal run of characters of C that starts at i
\* (i - 1 when s[i] is not in C)
RunEnd(s, i, C) ==
    CHOOSE j \in (i - 1)..Len(s) :
        /\ \A k \in i..j : Ch(s, k) \in C
        /\ (j = Len(s) \/ Ch(s, j + 1) \notin C)

\* the same for the characters not in C
RunEndNot(s, i, C) ==
    CHOOSE j \in (i - 1)..Len(s) :
        /\ \A k \in i..j : Ch(s, k) \notin C
        /\ (j = Len(s) \/ Ch(s, j + 1) \in C)

Min(S) == CHOOSE a \in S : \A b \in S : a <= b
Max(S) == CHOOSE a \in S : \A b \in S : a >= b

\* the span of s between its first and its last index of keep
Between(s, keep) == IF keep = {} THEN "" ELSE SubSeq(s, Min(keep), Max(keep))

\* str.strip()
Strip(s) == Between(s, {i \in 1..Len(s) : Ch(s, i) \notin WhiteSpace})

RECURSIVE ToInt(_)
\* int(s) for a string of decimal digits
ToInt(s) ==
    IF s = "" THEN 0
    ELSE ToInt(SubSeq(s, 1, Len(s) - 1)) * 10
         + ((CHOOSE d \in 1..10 : Ch(DigitChars, d) = Ch(s, Len(s))) - 1)

RECURSIVE ToStrNat(_)
ToStrNat(n) ==
    IF n < 10 THEN Ch(DigitChars, n + 1)
    ELSE ToStrNat(n \div 10) \o Ch(DigitChars, (n % 10) + 1)

\* str(n), as an f-string formats an int
ToStr(n) == IF n < 0 THEN "-" \o ToStrNat(0 - n) ELSE ToStrNat(n)

\* s1 < s2 in Python's string order (code point by code point)
StrLess(s1, s2) ==
    \E i \in 1..(Len(s1) + 1) :
        /\ \A k \in 1..(i - 1) : k <= Len(s2) /\ Ch(s1, k) = Ch(s2, k)
        /\ i <= Len(s2)
        /\ (i = Len(s1) + 1 \/ Ord(Ch(s1, i)) < Ord(Ch(s2, i)))

(***************************************************************************)
(* Item records                                                            *)
(***************************************************************************)
Has(item, f) == f \in DOMAIN item

\* item.get(f, default)
Get(item, f, default) == IF Has(item, f) THEN item[f] ELSE default

\* item.get(f)
GetOpt(item, f) == IF Has(item, f) THEN Some(item[f]) ELSE None

\* A JSON object is a record of its keys. An element of the loaded list that
\* is no JSON object is a record with the field json, which no scraped item
\* has: [json |-> "string", text |-> s], [json |-> "array", elems |-> e]
\* for an array of strings, and [json |-> "scalar"] for a number, a boolean
\* or null.
IsMapping(item) == ~Has(item, "json")

\* "word in item" for a string (a substring test) or an array of strings
InValue(word, item) ==
    IF item["json"] = "string" THEN Contains(item["text"], word)
    ELSE \E k \in 1..Len(item["elems"]) : item["elems"][k] = word

(***************************************************************************)
(* Record classifier                                                       *)
(***************************************************************************)
combo_keywords ==
    <<"combo", "all variants", "bundle", "set", "pack",
      "combo of", "all variant", "variants combo">>

\* the check without title.lower()
is_combo_item_case_sensitive(item) ==
    LET title == Get(item, "title", "")
    IN \E k \in 1..Len(combo_keywords) : Contains(title, combo_keywords[k])

is_combo_item(item) ==
    LET title == Lower(Get(item, "title", ""))
    IN \E k \in 1..Len(combo_keywords) : Contains(title, combo_keywords[k])

\* a classifier that takes no item for a publisher
is_publisher_item_never(item) == FALSE

\* lines 33-35: 'name' in item and 'title' not in item; the operator "in"
\* asks a dict for a key, a string for a substring, a list for an element
is_publisher_item(item) ==
    IF IsMapping(item) THEN Has(item, "name") /\ ~Has(item, "title")
    ELSE InValue("name", item) /\ ~InValue("title", item)

(***************************************************************************)
(* normalize_series_name                                                   *)
(***************************************************************************)
\* \s+Origins\s*$ with IGNORECASE matches ls from index k + 1 on, where a
\* is the end of the whitespace that starts at k + 1
OriginsTail(ls, k, a) ==
    a >= k + 1 /\ StartsAt(ls, a + 1, "origins") /\ RunEnd(ls, a + 8, WhiteSpace) = Len(ls)

\* ^(.+?)\s+Origins\s*$ : the lengths k of a group 1 for which the rest of
\* the lowercased name ls matches
OriginsSplits(ls) ==
    {k \in 1..Len(ls) : OriginsTail(ls, k, RunEnd(ls, k + 1, WhiteSpace))}

\* (?:\s*[C]\s*.+)?$ matches s from index k + 1 on, where a is the end of
\* the whitespace that starts at k + 1: whitespace, a character of C and
\* at least one more character, or else nothing at all
SeparatorTail(s, k, a, C) == (Ch(s, a + 1) \in C /\ a + 2 <= Len(s)) \/ k = Len(s)

\* ^([^C]+?)(?:\s*[C]\s*.+)?$ : the lengths k of a group 1
SeparatorSplits(s, C) ==
    {k \in 1..Len(s) :
        /\ \A j \in 1..k : Ch(s, j) \notin C
        /\ SeparatorTail(s, k, RunEnd(s, k + 1, WhiteSpace), C)}

\* group(1).strip() of the match with the shortest group 1 (the group is
\* lazy), or "" when there is no match
BaseName(s, splits) == IF splits = {} THEN "" ELSE Strip(SubSeq(s, 1, Min(splits)))

\* lines 128-153, given the base name of each of the three patterns
NormalizeWith(series_name, origins_base, colon_base, dash_base) ==
    IF Len(origins_base) > 2 THEN origins_base
    ELSE IF /\ Len(colon_base) > 2
            /\ Contains(series_name, ":") /\ colon_base # series_name
         THEN colon_base
    ELSE IF /\ Len(dash_base) > 2
            /\ (Contains(series_name, "~") \/ Contains(series_name, "-"))
            /\ dash_base # series_name
         THEN dash_base
    ELSE series_name

\* a normalisation that tries the dash rule before the colon rule
normalize_series_name_dash_first(series_name) ==
    IF series_name = "" THEN series_name
    ELSE IF NormalizeWith(series_name,
                          BaseName(series_name, OriginsSplits(Lower(series_name))),
                          "",
                          BaseName(series_name, SeparatorSplits(series_name, Dashes)))
              # series_name
         THEN NormalizeWith(series_name,
                            BaseName(series_name, OriginsSplits(Lower(series_name))),
                            "",
                            BaseName(series_name, SeparatorSplits(series_name, Dashes)))
         ELSE NormalizeWith(series_name,
                            "",
                            BaseName(series_name, SeparatorSplits(series_name, {":"})),
                            "")

\* the normalisation without its "Origins" rule
normalize_series_name_no_origins(series_name) ==
    IF series_name = "" THEN series_name
    ELSE NormalizeWith(series_name,
                       "",
                       BaseName(series_name, SeparatorSplits(series_name, {":"})),
                       BaseName(series_name, SeparatorSplits(series_name, Dashes)))

normalize_series_name(series_name) ==
    IF series_name = "" THEN series_name
    ELSE NormalizeWith(series_name,
                       BaseName(series_name, OriginsSplits(Lower(series_name))),
                       BaseName(series_name, SeparatorSplits(series_name, {":"})),
                       BaseName(series_name, SeparatorSplits(series_name, Dashes)))

(***************************************************************************)
(* Number patterns in titles                                               *)
(***************************************************************************)
\* a or b: the first that is not empty
OrElse(a, b) == IF a # << >> THEN a ELSE b

\* (\d+) at index h: the span <<first, last>> of the digits, or << >>
SpanTo(h, d) == IF d >= h THEN <<h, d>> ELSE << >>
DigitSpan(lt, h) == SpanTo(h, RunEnd(lt, h, Digits))

\* int(group) for the span g of lt
SpanInt(lt, g) == ToInt(SubSeq(lt, g[1], g[2]))

\* \.? and #? : the index after the optional character c at index i
SkipChar(lt, i, c, optional) == IF optional /\ Ch(lt, i) = c THEN i + 1 ELSE i

\* \s*#?(\d+) from index q on, where a is the end of the whitespace that
\* starts at q and at least minWs whitespace characters are required
NumberAfterWs(lt, q, a, minWs, hash) ==
    IF a - q + 1 >= minWs THEN DigitSpan(lt, SkipChar(lt, a + 1, "#", hash)) ELSE << >>

\* kw\.?\s*#?(\d+) matched at index p of the lowercased title lt, where the
\* "." and the "#" are part of the pattern only when dot / hash is TRUE and
\* at least minWs whitespace characters are required: the span of the digit
\* group, or << >> when there is no match at p. Every quantifier is greedy
\* and no shorter choice can rescue a failed match, so the match is
\* determined by the maximal runs.
NumberAfterKw(lt, q, minWs, hash) ==
    NumberAfterWs(lt, q, RunEnd(lt, q, WhiteSpace), minWs, hash)

NumberAfter(lt, p, kw, dot, minWs, hash) ==
    IF StartsAt(lt, p, kw)
    THEN NumberAfterKw(lt, SkipChar(lt, p + Len(kw), ".", dot), minWs, hash)
    ELSE << >>

\* the indices at which the pattern matches
NumberMatches(lt, kw, dot, minWs, hash) ==
    {p \in 1..Len(lt) : NumberAfter(lt, p, kw, dot, minWs, hash) # << >>}

\* the number of the leftmost of the matches ps, or None
FirstNumber(lt, ps, kw, dot, minWs, hash) ==
    IF ps = {} THEN None
    ELSE Some(SpanInt(lt, NumberAfter(lt, Min(ps), kw, dot, minWs, hash)))

SearchLower(lt, kw, dot, minWs, hash) ==
    FirstNumber(lt, NumberMatches(lt, kw, dot, minWs, hash), kw, dot, minWs, hash)

\* re.search of such a pattern with IGNORECASE: the number of the leftmost
\* match, or None
SearchNumber(title, kw, dot, minWs, hash) == SearchLower(Lower(title), kw, dot, minWs, hash)

RECURSIVE SetToSeq(_)
\* sorted(S) for a set of integers
SetToSeq(S) == IF S = {} THEN << >> ELSE <<Min(S)>> \o SetToSeq(S \ {Min(S)})

\* list(range(a, b + 1))
Range(a, b) == [k \in 1..(b - a + 1) |-> a + k - 1]

RECURSIVE FindNumbers(_, _)
\* re.findall(r'\d+', s), as integers, scanning from index i
FindNumbers(s, i) ==
    IF i > Len(s) THEN << >>
    ELSE IF Ch(s, i) \in Digits
         THEN <<ToInt(SubSeq(s, i, RunEnd(s, i, Digits)))>>
              \o FindNumbers(s, RunEnd(s, i, Digits) + 1)
         ELSE FindNumbers(s, i + 1)

(***************************************************************************)
(* extract_combo_issues                                                    *)
(***************************************************************************)
\* [C]\s*(\d+) at index b + 1: the span of the digits, or << >>
SeparatedNumber(lt, b, C) ==
    IF Ch(lt, b + 1) \in C THEN DigitSpan(lt, RunEnd(lt, b + 2, WhiteSpace) + 1) ELSE << >>

\* (?:\s*[-~]\s*(\d+))? after index d: the span of group 2, or << >>
RangeTail(lt, d) == SeparatedNumber(lt, RunEnd(lt, d + 1, WhiteSpace), Dashes)

\* lines 174-176: range(start, end + 1), where g2 is the span of group 2
RangeBetween(lt, start, g2) == Range(start, IF g2 # << >> THEN SpanInt(lt, g2) ELSE start)

\* the issues of the match whose group 1 has the span g1
RangeAt(lt, g1) == RangeBetween(lt, SpanInt(lt, g1), RangeTail(lt, g1[2]))

\* the issues of the leftmost of the matches ps
RangeIn(lt, ps) ==
    IF ps = {} THEN << >>
    ELSE RangeAt(lt, NumberAfter(lt, Min(ps), "issue", FALSE, 1, FALSE))

RangeLower(lt) == RangeIn(lt, NumberMatches(lt, "issue", FALSE, 1, FALSE))

\* issue\s+(\d+)(?:\s*[-~]\s*(\d+))? : the issues of the leftmost match
RangeIssues(title) == RangeLower(Lower(title))

RECURSIVE ListEnd(_, _)
\* the end of the list when the next repetition has the span g
ListNext(lt, d, g) == IF g # << >> THEN ListEnd(lt, g[2]) ELSE d

\* (?:\s*[,&]\s*\d+)* after index d: the last index matched
ListEnd(lt, d) == ListNext(lt, d, SeparatedNumber(lt, RunEnd(lt, d + 1, WhiteSpace), {",", "&"}))

\* the first number has the span g and at least one more number follows
IsList(lt, g) == g # << >> /\ ListEnd(lt, g[2]) > g[2]

\* lines 182-184: the numbers of the match whose first number has span g1
ListAt(lt, g1) == FindNumbers(SubSeq(lt, g1[1], ListEnd(lt, g1[2])), 1)

ListIn(lt, ps) ==
    IF ps = {} THEN << >>
    ELSE ListAt(lt, NumberAfter(lt, Min(ps), "issue", FALSE, 1, FALSE))

ListLower(lt) ==
    ListIn(lt, {p \in 1..Len(lt) : IsList(lt, NumberAfter(lt, p, "issue", FALSE, 1, FALSE))})

\* issue\s+(\d+(?:\s*[,&]\s*\d+)+) : the numbers of the leftmost match
ListIssues(title) == ListLower(Lower(title))

\* the numbers of the matches of kw\s+(\d+) at the indices ord
NumbersAt(lt, ord, kw) ==
    [k \in 1..Len(ord) |-> SpanInt(lt, NumberAfter(lt, ord[k], kw, FALSE, 1, FALSE))]

\* \bissue\s+(\d+)\b at index p, where g is the span of the digits:
\* "issue" starts a word and the digit run ends one
IsStandalone(lt, p, g) ==
    g # << >> /\ Ch(lt, p - 1) \notin WordChars /\ Ch(lt, g[2] + 1) \notin WordChars

StandaloneLower(lt) ==
    NumbersAt(lt,
              SetToSeq({p \in 1..Len(lt) :
                          IsStandalone(lt, p, NumberAfter(lt, p, "issue", FALSE, 1, FALSE))}),
              "issue")

\* re.findall(r'\bissue\s+(\d+)\b', title)
StandaloneIssues(title) == StandaloneLower(Lower(title))

BookLower(lt) == NumbersAt(lt, SetToSeq(NumberMatches(lt, "book", FALSE, 1, FALSE)), "book")

\* re.findall(r'book\s+(\d+)', title)
BookIssues(title) == BookLower(Lower(title))

\* lines 197-198: "if not issues and issue": the field counts when it is
\* there and is not 0
FieldIssue(issue) == IF issue # None /\ issue[1] # 0 THEN issue ELSE << >>

\* line 201: sorted(list(set(issues)))
SortedSet(issues) == SetToSeq({issues[k] : k \in 1..Len(issues)})

\* lines 172-201 for a title and an issue field
ComboIssues(title, issue) ==
    SortedSet(OrElse(RangeIssues(title),
              OrElse(ListIssues(title),
              OrElse(StandaloneIssues(title),
              OrElse(BookIssues(title), FieldIssue(issue))))))

extract_combo_issues(combo_item) ==
    ComboIssues(Get(combo_item, "title", ""), GetOpt(combo_item, "issue"))

(***************************************************************************)
(* extract_variant_info                                                    *)
(***************************************************************************)
\* the indices hi, hi - 1, ..., lo
Desc(hi, lo) == [k \in 1..(hi - lo + 1) |-> hi - k + 1]

\* (?:by\s+)? matched after index x, where c1 is the end of the whitespace
\* behind "by": the indices at which the next part of the pattern may
\* start, the longest whitespace first
ByMatched(lt, x, c1) ==
    IF StartsAt(lt, x + 1, "by") /\ c1 >= x + 3 THEN Desc(c1 + 1, x + 4) ELSE << >>

\* (?:by\s+)? tried after index x: the starts in the order the matcher
\* tries them, the optional part skipped last
ByStarts(lt, x) == ByMatched(lt, x, RunEnd(lt, x + 3, WhiteSpace)) \o <<x + 1>>

\* (?:cover\s+)? matched after index a, where b1 is the end of the
\* whitespace behind "cover"
CoverMatched(lt, a, b1) ==
    IF StartsAt(lt, a + 1, "cover") /\ b1 >= a + 6
    THEN ByStarts(lt, b1) \o Desc(b1, a + 7) ELSE << >>

\* (?:cover\s+)?(?:by\s+)? tried after index a
CoverStarts(lt, a) == CoverMatched(lt, a, RunEnd(lt, a + 6, WhiteSpace)) \o ByStarts(lt, a)

\* ([^-~]+) at the first of the starts ok: its span, or << >> when no start
\* is a character other than a dash
GroupFrom(lt, starts, ok) ==
    IF ok = {} THEN << >>
    ELSE <<starts[Min(ok)], RunEndNot(lt, starts[Min(ok)], Dashes)>>

FirstGroup(lt, starts) ==
    GroupFrom(lt, starts,
              {k \in 1..Len(starts) : starts[k] <= Len(lt) /\ Ch(lt, starts[k]) \notin Dashes})

\* the group when the whitespace behind "variant" is q..a1
GroupAfterWs(lt, q, a1) ==
    IF a1 >= q THEN FirstGroup(lt, CoverStarts(lt, a1) \o Desc(a1, q + 1)) ELSE << >>

\* variant\s+(?:cover\s+)?(?:by\s+)?([^-~]+) matched at index p: the span of
\* group 1, or << >>
VariantGroupAt(lt, p) ==
    IF StartsAt(lt, p, "variant") THEN GroupAfterWs(lt, p + 7, RunEnd(lt, p + 7, WhiteSpace))
    ELSE << >>

\* desc cut before the first of the keyword starts ks, stripped
CutAt(desc, ks) == IF ks = {} THEN Strip(desc) ELSE Strip(SubSeq(desc, 1, Min(ks) - 1))

SuffixStarts(ld) ==
    {k \in 1..Len(ld) :
        StartsAt(ld, k, "cover") \/ StartsAt(ld, k, "by") \/ StartsAt(ld, k, "variant")}

\* re.sub(r'\s*(cover|by|variant).*$', '', desc, flags=re.IGNORECASE).strip()
CutSuffix(desc) == CutAt(desc, SuffixStarts(Lower(desc)))

\* lines 66-67
DescribedVariant(variant_desc) ==
    IF variant_desc # "" /\ Len(variant_desc) < 50 THEN <<variant_desc>> ELSE << >>

\* lines 62-65, for the span g of group 1
VariantDesc(title, g) == CutSuffix(Strip(SubSeq(title, g[1], g[2])))

\* lines 61-69, for the indices ps at which the pattern matches
VariantMatch(title, lt, ps) ==
    IF ps = {} THEN <<"Variant">>
    ELSE DescribedVariant(VariantDesc(title, VariantGroupAt(lt, Min(ps))))

\* lines 70-87
KeywordType(lt) ==
    IF Contains(lt, "regular") \/ Contains(lt, "default") THEN <<"Regular">>
    ELSE IF Contains(lt, "blank") THEN <<"Blank">>
    ELSE IF Contains(lt, "homage") THEN <<"Homage">>
    ELSE IF Contains(lt, "wraparound") THEN <<"Wraparound">>
    ELSE IF Contains(lt, "hand painted") \/ Contains(lt, "hand-painted")
         THEN <<"Hand Painted">>
    ELSE IF Contains(lt, "sketch") THEN <<"Sketch">>
    ELSE IF Contains(lt, "directors cut") \/ Contains(lt, "director's cut")
         THEN <<"Director's Cut">>
    ELSE IF Contains(lt, "action figure") THEN <<"Action Figure">>
    ELSE IF Contains(lt, "poster") THEN <<"Poster">>
    ELSE << >>

TypesLower(title, lt) ==
    IF Contains(lt, "variant")
    THEN VariantMatch(title, lt, {p \in 1..Len(lt) : VariantGroupAt(lt, p) # << >>})
    ELSE KeywordType(lt)

\* lines 58-87: the variant_types list after the keyword ladder
VariantTypes(title) == TypesLower(title, Lower(title))

RECURSIVE Join(_, _)
\* sep.join(parts)
Join(parts, sep) ==
    IF parts = << >> THEN ""
    ELSE IF Len(parts) = 1 THEN parts[1]
    ELSE parts[1] \o sep \o Join(Tail(parts), sep)

\* lines 90-91
WithArtist(variant_types, cover_artist) ==
    IF cover_artist # "" /\ ~Contains(Join(variant_types, " "), cover_artist)
    THEN Append(variant_types, "by " \o cover_artist) ELSE variant_types

\* lines 94-95
WithBinding(variant_types, binding) ==
    IF binding # "" /\ Lower(binding) \notin {"paperback", ""}
    THEN Append(variant_types, binding) ELSE variant_types

\* lines 102-108
JoinParts(variant_parts) ==
    Strip(Join(IF variant_parts = << >> THEN <<"Standard">> ELSE variant_parts, " "))

\* lines 48-108 for the four fields
VariantInfo(title, language, cover_artist, binding) ==
    JoinParts((IF language # "" THEN <<language>> ELSE << >>)
              \o WithBinding(WithArtist(VariantTypes(title), cover_artist), binding))

extract_variant_info(item) ==
    VariantInfo(Get(item, "title", ""), Get(item, "language", ""),
                Get(item, "cover_artist", ""), Get(item, "binding", ""))

(***************************************************************************)
(* generate_code                                                           *)
(***************************************************************************)
RECURSIVE KeepChars(_, _)
\* s without the characters that are not in C
KeepChars(s, C) ==
    IF Len(s) <= 1 THEN (IF s \in C THEN s ELSE "")
    ELSE KeepChars(SubSeq(s, 1, Len(s) \div 2), C)
         \o KeepChars(SubSeq(s, Len(s) \div 2 + 1, Len(s)), C)

RECURSIVE CollapseRange(_, _, _, _, _)
\* the characters lo..hi of s, with a character of C replaced by c when it
\* starts a run of characters of C and dropped when it continues one
CollapseRange(s, C, c, lo, hi) ==
    IF lo > hi THEN ""
    ELSE IF lo = hi
         THEN IF Ch(s, lo) \notin C THEN Ch(s, lo)
              ELSE IF Ch(s, lo - 1) \in C THEN "" ELSE c
         ELSE CollapseRange(s, C, c, lo, (lo + hi) \div 2)
              \o CollapseRange(s, C, c, (lo + hi) \div 2 + 1, hi)

\* s with every run of characters of C replaced by the one character c
Collapse(s, C, c) == CollapseRange(s, C, c, 1, Len(s))

\* s.strip(c) for the one character c
StripChar(s, c) == Between(s, {i \in 1..Len(s) : Ch(s, i) # c})

MaxCodeLen == 50

\* [a-z0-9\s]
CodeChars == CharsOf(LowerChars) \cup Digits \cup WhiteSpace

\* lines 319-334
CleanCode(text) ==
    StripChar(Collapse(Collapse(Strip(Collapse(KeepChars(Lower(text), CodeChars),
                                               WhiteSpace, " ")),
                                {" "}, "_"),
                       {"_"}, "_"),
              "_")

\* a code that is never cut
Truncated_off(code) == code

\* lines 337-338
Truncated(code) == IF Len(code) > MaxCodeLen THEN SubSeq(code, 1, MaxCodeLen) ELSE code

\* line 340
Prefixed(prefix, code) ==
    IF code # "" THEN prefix \o "_" \o code ELSE prefix \o "_unknown"

generate_code(text, prefix) ==
    IF text = "" THEN prefix \o "_unknown"
    ELSE Prefixed(prefix, Truncated(CleanCode(text)))

(***************************************************************************)
(* Dicts and sorting                                                       *)
(***************************************************************************)
\* list(d.keys())
DictKeys(d) == [k \in 1..Len(d) |-> d[k][1]]

\* key in d
HasKey(d, key) == \E k \in 1..Len(d) : d[k][1] = key

KeyIndex(d, key) == CHOOSE k \in 1..Len(d) : d[k][1] = key

\* d[key]
DictGet(d, key) == d[KeyIndex(d, key)][2]

\* d[key] of a defaultdict whose factory gives default
DefaultGet(d, key, default) == IF HasKey(d, key) THEN DictGet(d, key) ELSE default

\* d[key] = value: a new key goes last, an old key keeps its place
DictSet(d, key, value) ==
    IF HasKey(d, key) THEN [d EXCEPT ![KeyIndex(d, key)] = <<key, value>>]
    ELSE Append(d, <<key, value>>)

\* float('inf') and the int n, as numbers that compare with each other
Infinity == [inf |-> TRUE, n |-> 0]
Number(n) == [inf |-> FALSE, n |-> n]
NumLess(a, b) == IF a.inf THEN FALSE ELSE (b.inf \/ a.n < b.n)

\* the sort key of line 297 for one (issue, variants) pair:
\* (x[0] is None, x[0] if x[0] is not None else float('inf'))
IssueSortKey(x) == <<x[1] = None, IF x[1] # None THEN Number(x[1][1]) ELSE Infinity>>

\* k1 < k2 for two such tuples (False < True)
KeyLess(k1, k2) ==
    IF k1[1] # k2[1] THEN (~k1[1] /\ k2[1]) ELSE NumLess(k1[2], k2[2])

\* a sort that leaves the issues in their order of arrival
SortedIssues_unsorted(items) == items

RECURSIVE SortedIssues(_)
\* sorted(items, key=...): stable, ascending
SortedIssues(items) ==
    IF items = << >> THEN << >>
    ELSE LET front == SortedIssues(SubSeq(items, 1, Len(items) - 1))
             x == items[Len(items)]
             \* x goes behind the elements whose key is not greater
             n == Cardinality({k \in 1..Len(front) :
                                 ~KeyLess(IssueSortKey(x), IssueSortKey(front[k]))})
         IN SubSeq(front, 1, n) \o <<x>> \o SubSeq(front, n + 1, Len(front))

\* a sort that leaves the names in their order of arrival
SortedStrings_unsorted(names) == names

RECURSIVE SortedStrings(_)
\* sorted(names) for a list of strings
SortedStrings(names) ==
    IF names = << >> THEN << >>
    ELSE LET front == SortedStrings(SubSeq(names, 1, Len(names) - 1))
             x == names[Len(names)]
             n == Cardinality({k \in 1..Len(front) : ~StrLess(x, front[k])})
         IN SubSeq(front, 1, n) \o <<x>> \o SubSeq(front, n + 1, Len(front))

(***************************************************************************)
(* organize_comic_data                                                     *)
(***************************************************************************)
\* data: the loaded batch, a sequence of item records
\* pc: "loop" in the for loop, "done" once the call has returned, "error"
\*     once it has raised
\* idx: the position in data of the next item of the loop
\* series_structure: dict series name -> dict issue -> list of variants
\* combo_structure: dict series name -> dict combo title -> combo
\* organized_data: the returned value, << >> before the return
\* hierarchical: the values returned by format_as_hierarchical_json
\* objects: the values returned by format_as_object_oriented_json
\* call: a call of one function of the module on its own, [fn |-> "none"]
\*       when the batch runner runs
\* returned: the values that the calls of that function have returned
VARIABLES data, pc, idx, series_structure, combo_structure, organized_data, hierarchical, objects, call, returned

\* The state of the crawls that write the batches:
\* files: the JSON files of the output folder of a spider, a dict from the
\*       file name to the modification time and the items of the file
\* clock: the time of the system clock, which names a file and stamps it
\* runs: the calls of run_scrapy_spider, each with its place in the code,
\*       the file its crawl writes and the file it has found
\* pipeline: the fields filename and item_count of a JsonExportPipeline
\* processed: the items that process_item of that pipeline was called with
\* visited_urls, publisher_yielded, got_404: the fields of a
\*       BullseyePressSpider
\* requests: the requests of the crawl of that spider in the order in
\*       which they were made, each with its callback and its answer
VARIABLES files, clock, runs, pipeline, processed, visited_urls, publisher_yielded, got_404, requests

organizeVars == <<data, pc, idx, series_structure, combo_structure, organized_data,
                  hierarchical, objects, call, returned>>

crawlVars == <<files, clock, runs, pipeline, processed, visited_urls, publisher_yielded, got_404, requests>>

vars == <<data, pc, idx, series_structure, combo_structure, organized_data,
          hierarchical, objects, call, returned,
          files, clock, runs, pipeline, processed, visited_urls, publisher_yielded, got_404, requests>>

\* JsonExportPipeline.__init__, lines 27-33 of pipelines.py
NewPipeline == [filename |-> << >>, item_count |-> 0]

\* no crawl has begun: no file, no run, a pipeline and a spider as their
\* constructors leave them
NoCrawl ==
    /\ files = << >>
    /\ clock = 0
    /\ runs = << >>
    /\ pipeline = NewPipeline
    /\ processed = << >>
    /\ visited_urls = {}
    /\ publisher_yielded = FALSE
    /\ got_404 = FALSE
    /\ requests = << >>

\* lines 265-283: the issue number in the title of a regular item, or None
TitleIssue(title) ==
    OrElse(SearchNumber(title, "issue", FALSE, 1, TRUE),
    OrElse(SearchNumber(title, "book", FALSE, 1, FALSE),
           SearchNumber(title, "vol", TRUE, 0, FALSE)))

\* an issue that is read from the title before the field
ItemIssue_title_first(item) ==
    OrElse(TitleIssue(Get(item, "title", "")), GetOpt(item, "issue"))

\* lines 262-283: the issue of a regular item
ItemIssue(item) == OrElse(GetOpt(item, "issue"), TitleIssue(Get(item, "title", "")))

\* a loop that drops the items that have no issue number
AppendVariant_numbered_only(structure, name, issue, entry) ==
    LET issues == DefaultGet(structure, name, << >>)
        variants == DefaultGet(issues, issue, << >>)
    IN IF issue = None THEN structure
       ELSE DictSet(structure, name, DictSet(issues, issue, Append(variants, entry)))

\* a loop that puts the new variant first
AppendVariant_prepend(structure, name, issue, entry) ==
    LET issues == DefaultGet(structure, name, << >>)
        variants == DefaultGet(issues, issue, << >>)
    IN DictSet(structure, name, DictSet(issues, issue, <<entry>> \o variants))

\* line 287: series_structure[name][issue].append(entry)
AppendVariant(structure, name, issue, entry) ==
    LET issues == DefaultGet(structure, name, << >>)
        variants == DefaultGet(issues, issue, << >>)
    IN DictSet(structure, name, DictSet(issues, issue, Append(variants, entry)))

\* an assignment under the title of the combo in place of the series
SetCombo_under_title(structure, name, combo_title, combo) ==
    DictSet(structure, combo_title,
            DictSet(DefaultGet(structure, combo_title, << >>), combo_title, combo))

\* an assignment that keeps the combo that is there
SetCombo_first_wins(structure, name, combo_title, combo) ==
    IF HasKey(DefaultGet(structure, name, << >>), combo_title) THEN structure
    ELSE DictSet(structure, name, DictSet(DefaultGet(structure, name, << >>), combo_title, combo))

\* line 255: combo_structure[name][combo_title] = combo
SetCombo(structure, name, combo_title, combo) ==
    DictSet(structure, name, DictSet(DefaultGet(structure, name, << >>), combo_title, combo))

\* a check that skips an absent series only
NoSeries_absent_only(series_name) == series_name = None

\* line 244: "if not series_name", for series_name = item.get('series')
NoSeries(series_name) == series_name = None \/ series_name[1] = ""

\* the body of the loop raises for the item: "in" of line 35 raises
\* TypeError for a scalar, and item.get of line 243 raises AttributeError
\* for a string or a list that line 239 has not skipped
ItemRaises(item) ==
    ~IsMapping(item) /\ (item["json"] = "scalar" \/ ~is_publisher_item(item))

\* lines 237-290: the body of the loop for one item; an exception ends the
\* call without a return value
ProcessItem ==
    /\ pc = "loop"
    /\ idx <= Len(data)
    /\ LET item == data[idx]
           series_name == GetOpt(item, "series")
       IN IF ItemRaises(item)
          THEN UNCHANGED <<series_structure, combo_structure>>
          ELSE IF is_publisher_item(item)
          THEN UNCHANGED <<series_structure, combo_structure>>
          ELSE IF NoSeries(series_name)
          THEN UNCHANGED <<series_structure, combo_structure>>
          ELSE LET normalized_series_name == normalize_series_name(series_name[1])
               IN IF is_combo_item(item)
                  THEN /\ combo_structure' =
                            SetCombo(combo_structure, normalized_series_name,
                                     Get(item, "title", "Unknown Combo"),
                                     [issues |-> extract_combo_issues(item), item |-> item])
                       /\ UNCHANGED series_structure
                  ELSE /\ series_structure' =
                            AppendVariant(series_structure, normalized_series_name,
                                          ItemIssue(item),
                                          [variant |-> extract_variant_info(item),
                                           item |-> item])
                       /\ UNCHANGED combo_structure
    /\ pc' = IF ItemRaises(data[idx]) THEN "error" ELSE pc
    /\ idx' = IF ItemRaises(data[idx]) THEN idx ELSE idx + 1
    /\ UNCHANGED <<data, organized_data, hierarchical, objects, call, returned>>
    /\ UNCHANGED crawlVars

\* lines 293-299: every series gets its issues sorted
SortSeries(structure) ==
    [k \in 1..Len(structure) |-> <<structure[k][1], SortedIssues(structure[k][2])>>]

\* lines 292-304: after the loop, sort the issues of each series and return
SortAndReturn ==
    /\ pc = "loop"
    /\ idx > Len(data)
    /\ series_structure' = SortSeries(series_structure)
    /\ organized_data' = <<[series |-> series_structure', combos |-> combo_structure]>>
    /\ pc' = "done"
    /\ UNCHANGED <<data, idx, combo_structure, hierarchical, objects, call, returned>>
    /\ UNCHANGED crawlVars

(***************************************************************************)
(* format_as_hierarchical_json                                             *)
(***************************************************************************)
\* a key that is the bare number
IssueKey_bare(issue_num) ==
    IF issue_num = None THEN "no_issue" ELSE ToStr(issue_num[1])

\* lines 525-528
IssueKey(issue_num) ==
    IF issue_num = None THEN "no_issue" ELSE "issue_" \o ToStr(issue_num[1])

\* lines 532-537
HierVariant(variant_data) ==
    [variant |-> variant_data.variant,
     price |-> GetOpt(variant_data.item, "price"),
     url |-> GetOpt(variant_data.item, "url"),
     title |-> GetOpt(variant_data.item, "title")]

RECURSIVE HierIssues_newest_first(_, _)
\* a loop that puts each variant before the variants it has
HierIssues_newest_first(issues, n) ==
    IF n = 0 THEN << >>
    ELSE DictSet(HierIssues_newest_first(issues, n - 1), IssueKey(issues[n][1]),
                 [j \in 1..Len(issues[n][2]) |->
                    HierVariant(issues[n][2][Len(issues[n][2]) + 1 - j])])

RECURSIVE HierIssues(_, _)
\* lines 523-540: issues_data after the first n issues of one series
HierIssues(issues, n) ==
    IF n = 0 THEN << >>
    ELSE DictSet(HierIssues(issues, n - 1), IssueKey(issues[n][1]),
                 [j \in 1..Len(issues[n][2]) |-> HierVariant(issues[n][2][j])])

RECURSIVE HierSeries(_, _, _)
\* lines 521-542: series_data after the first n names
HierSeries(series, names, n) ==
    IF n = 0 THEN << >>
    ELSE LET issues == DictGet(series, names[n])
         IN DictSet(HierSeries(series, names, n - 1), names[n],
                    HierIssues(issues, Len(issues)))

\* lines 551-556
HierCombo(combo) ==
    [title |-> combo[1],
     issues |-> combo[2].issues,
     price |-> GetOpt(combo[2].item, "price"),
     url |-> GetOpt(combo[2].item, "url")]

RECURSIVE HierCombos(_, _, _)
\* lines 547-559: combo_data after the first n names
HierCombos(combos, names, n) ==
    IF n = 0 THEN << >>
    ELSE LET of_series == DictGet(combos, names[n])
         IN DictSet(HierCombos(combos, names, n - 1), names[n],
                    [j \in 1..Len(of_series) |-> HierCombo(of_series[j])])

format_as_hierarchical_json(organized) ==
    LET series_names == SortedStrings(DictKeys(organized.series))
        combo_names == SortedStrings(DictKeys(organized.combos))
    IN [series |-> HierSeries(organized.series, series_names, Len(series_names)),
        combos |-> HierCombos(organized.combos, combo_names, Len(combo_names))]

(***************************************************************************)
(* format_as_object_oriented_json                                          *)
(***************************************************************************)
\* {k: v for k, v in obj.items() if v is not None}, for a record whose
\* fields are None or <<value>>
Sparse(obj) == [f \in {g \in DOMAIN obj : obj[g] # None} |-> obj[f][1]]

\* lines 382-386: the item of the first variant of the first issue that
\* has one, or None
FirstItem(issues) ==
    LET with == {k \in 1..Len(issues) : issues[k][2] # << >>}
    IN IF with = {} THEN None ELSE Some(issues[Min(with)][2][1].item)

\* lines 379-398
SeriesObject(series_name, issues) ==
    LET first_item == FirstItem(issues)
    IN Sparse([object |-> Some("series"),
               name |-> Some(series_name),
               code |-> Some(generate_code(series_name, "ser")),
               publisher |-> IF first_item # None
                             THEN GetOpt(first_item[1], "publisher") ELSE None,
               url |-> None,
               description |-> None])

\* lines 414-419
IssueName(series_name, issue_num) ==
    IF issue_num = None THEN series_name
    ELSE series_name \o " #" \o ToStr(issue_num[1])

IssueCode(series_name, issue_num) ==
    IF issue_num = None
    THEN generate_code(series_name \o " no issue", "iss")
    ELSE generate_code(series_name \o " issue " \o ToStr(issue_num[1]), "iss")

\* lines 434-442
VariantLanguage(variant_info, variant_item) ==
    LET language == Get(variant_item, "language", "")
        v == Lower(variant_info)
    IN IF language # "" THEN language
       ELSE IF Contains(v, "hindi") THEN "Hindi"
       ELSE IF Contains(v, "english") THEN "English"
       ELSE IF Contains(v, "malayalam") THEN "Malayalam"
       ELSE language

\* lines 444-455
VariantBinding(variant_info, variant_item) ==
    LET binding == Get(variant_item, "binding", "")
        v == Lower(variant_info)
    IN IF binding # "" THEN binding
       ELSE IF Contains(v, "hardcover") \/ Contains(v, "hard cover") THEN "Hardcover"
       ELSE IF Contains(v, "hardbound") \/ Contains(v, "hard bound") THEN "Hardbound"
       ELSE IF Contains(v, "paperback") \/ Contains(v, "paper back") THEN "Paperback"
       ELSE IF Contains(v, "softcover") THEN "Softcover"
       ELSE binding

\* lines 428-478: the variant object of the variant_counter-th variant
VariantObject(issue_name, issue_code, variant_counter, variant_data) ==
    LET variant_info == variant_data.variant
        variant_item == variant_data.item
        language == VariantLanguage(variant_info, variant_item)
        binding == VariantBinding(variant_info, variant_item)
        issue_code_base == IF StartsAt(issue_code, 1, "iss_")
                           THEN SubSeq(issue_code, 5, Len(issue_code))
                           ELSE issue_code
    IN Sparse([object |-> Some("issue_variant"),
               name |-> Some(issue_name \o " - " \o variant_info),
               code |-> Some(generate_code(issue_code_base \o " variant "
                                           \o ToStr(variant_counter), "var")),
               language |-> IF language # "" THEN Some(language) ELSE None,
               binding |-> IF binding # "" THEN Some(binding) ELSE None,
               price |-> GetOpt(variant_item, "price"),
               original_price |-> GetOpt(variant_item, "original_price"),
               url |-> GetOpt(variant_item, "url"),
               cover_image_url |-> GetOpt(variant_item, "cover_image_url"),
               pages |-> GetOpt(variant_item, "pages"),
               description |-> GetOpt(variant_item, "description")])

\* lines 407-492: the issue object of one (issue, variants) pair
IssueObject(series_name, issue_num, variants_data) ==
    LET issue_name == IssueName(series_name, issue_num)
        issue_code == IssueCode(series_name, issue_num)
    IN Sparse([object |-> Some("issue"),
               name |-> Some(issue_name),
               code |-> Some(issue_code),
               series_code |-> Some(generate_code(series_name, "ser")),
               issue_number |-> issue_num,
               variants |-> Some([j \in 1..Len(variants_data) |->
                                    VariantObject(issue_name, issue_code, j,
                                                  variants_data[j])])])

RECURSIVE SeriesIssueObjects_numbered_only(_, _, _)
\* a loop that emits no issue object for the issue without number
SeriesIssueObjects_numbered_only(series_name, issues, n) ==
    IF n = 0 THEN << >>
    ELSE SeriesIssueObjects_numbered_only(series_name, issues, n - 1)
         \o (IF issues[n][2] = << >> \/ issues[n][1] = None THEN << >>
             ELSE <<IssueObject(series_name, issues[n][1], issues[n][2])>>)

RECURSIVE SeriesIssueObjects(_, _, _)
\* lines 407-492: the issue objects of the first n issues of one series
SeriesIssueObjects(series_name, issues, n) ==
    IF n = 0 THEN << >>
    ELSE SeriesIssueObjects(series_name, issues, n - 1)
         \o (IF issues[n][2] = << >> THEN << >>
             ELSE <<IssueObject(series_name, issues[n][1], issues[n][2])>>)

RECURSIVE IssueObjects(_, _, _)
\* lines 404-492: issues_list after the first n names
IssueObjects(series, names, n) ==
    IF n = 0 THEN << >>
    ELSE LET issues == DictGet(series, names[n])
         IN IssueObjects(series, names, n - 1)
            \o SeriesIssueObjects(names[n], issues, Len(issues))

format_as_object_oriented_json(organized) ==
    LET names == SortedStrings(DictKeys(organized.series))
    IN [k \in 1..Len(names) |-> SeriesObject(names[k], DictGet(organized.series, names[k]))]
       \o <<[object |-> "list", data |-> IssueObjects(organized.series, names, Len(names))]>>

(***************************************************************************)
(* The calls of the batch runner                                           *)
(***************************************************************************)
\* how many times the runner calls one formatter on a result
MaxRuns == 2

\* a formatter that empties the series index it is given as it emits it
FormatHierarchical_consuming ==
    /\ pc = "done"
    /\ Len(hierarchical) < MaxRuns
    /\ hierarchical' = Append(hierarchical, format_as_hierarchical_json(organized_data[1]))
    /\ organized_data' = <<[series |-> << >>, combos |-> organized_data[1].combos]>>
    /\ UNCHANGED <<data, pc, idx, series_structure, combo_structure, objects, call,
                   returned>>
    /\ UNCHANGED crawlVars

\* format_as_hierarchical_json(organized_data): reads its argument only
FormatHierarchical ==
    /\ pc = "done"
    /\ Len(hierarchical) < MaxRuns
    /\ hierarchical' = Append(hierarchical, format_as_hierarchical_json(organized_data[1]))
    /\ UNCHANGED <<data, pc, idx, series_structure, combo_structure, organized_data, objects,
                   call, returned>>
    /\ UNCHANGED crawlVars

\* format_as_object_oriented_json(organized_data): reads its argument only
FormatObjectOriented ==
    /\ pc = "done"
    /\ Len(objects) < MaxRuns
    /\ objects' = Append(objects, format_as_object_oriented_json(organized_data[1]))
    /\ UNCHANGED <<data, pc, idx, series_structure, combo_structure, organized_data,
                   hierarchical, call, returned>>
    /\ UNCHANGED crawlVars

Next == ProcessItem \/ SortAndReturn \/ FormatHierarchical \/ FormatObjectOriented

\* no function is called on its own
NoCall == [fn |-> "none"]

\* the state after json.load and lines 233-234, for the batch batch
Loaded(batch) ==
    /\ data = batch
    /\ pc = "loop"
    /\ idx = 1
    /\ series_structure = << >>
    /\ combo_structure = << >>
    /\ organized_data = << >>
    /\ hierarchical = << >>
    /\ objects = << >>
    /\ call = NoCall
    /\ returned = << >>
    /\ NoCrawl

(***************************************************************************)
(* Batches                                                                 *)
(***************************************************************************)
\* the sequences of at most n distinct records of the set Rs: a crawl
\* visits a product URL once, so a batch holds a scraped record once
Batches(Rs, n) ==
    UNION {{b \in [1..m -> Rs] : \A i, j \in 1..m : b[i] = b[j] => i = j} : m \in 0..n}

\* records of every kind: a publisher, records that cannot be placed,
\* variants of two raw names of one series, a variant without issue, combos
Records ==
    {[name |-> "Bullseye Press", series |-> "Yagyaa"],
     [title |-> "Yagyaa Combo Pack Issue 2", issue |-> 2],
     [title |-> "Yagyaa Issue 4", series |-> "", issue |-> 4],
     [title |-> "Yagyaa Issue 1", series |-> "Yagyaa", language |-> "Hindi",
      price |-> 199, url |-> "u1", publisher |-> "Bullseye Press"],
     [title |-> "Yagyaa Origins Variant Cover by Art", series |-> "Yagyaa Origins",
      issue |-> 5],
     [title |-> "Solomon: Born Again", series |-> "Solomon: Born Again"],
     [title |-> "Mega Combo Issue 1-3", series |-> "Yagyaa", price |-> 499],
     [title |-> "Mega Combo Issue 1-3", series |-> "Yagyaa Origins", url |-> "u7"]}

MaxBatch == 3

Init == \E batch \in Batches(Records, MaxBatch) : Loaded(batch)

Spec == Init /\ [][Next]_vars

\* the variants of one series in every order of arrival: numbered issues
\* out of order, an issue number of two digits, one issue in two languages,
\* a record without issue number, and a record under another raw name
IssueRecords ==
    {[title |-> "Raj Rahman 3", series |-> "Raj Rahman", issue |-> 3],
     [title |-> "Raj Rahman Special", series |-> "Raj Rahman"],
     [title |-> "Raj Rahman 1", series |-> "Raj Rahman", issue |-> 1],
     [title |-> "Raj Rahman 2", series |-> "Raj Rahman", issue |-> 2,
      language |-> "English"],
     [title |-> "Raj Rahman 2", series |-> "Raj Rahman", issue |-> 2,
      language |-> "Hindi"],
     [title |-> "Raj Rahman 10", series |-> "Raj Rahman Origins", issue |-> 10]}

MaxIssueBatch == 4

InitIssues == \E batch \in Batches(IssueRecords, MaxIssueBatch) : Loaded(batch)

SpecIssues == InitIssues /\ [][Next]_vars

\* the issue numbers that combo titles name
MaxIssueNo == 5

\* what stands in a combo title before its issues
ComboLeads == {"Mega Combo ", "Combo Pack ", "Combo Issue 5 and "}

\* the titles that name a range of issues
RangeTitles ==
    {lead \o "Issue " \o ToStr(n) \o dash \o ToStr(m) :
        lead \in ComboLeads, n \in 1..MaxIssueNo, m \in 1..MaxIssueNo, dash \in Dashes}

\* the titles that list two or three issues
ListTitles ==
    {lead \o "Issue " \o ToStr(n) \o sep \o ToStr(m) \o rest :
        lead \in ComboLeads \ {"Combo Issue 5 and "},
        n \in 1..MaxIssueNo, m \in 1..MaxIssueNo, sep \in {", ", " & ", ","},
        rest \in {""} \cup {", " \o ToStr(k) : k \in 1..MaxIssueNo}}

\* a batch of one combo record
InitCombo ==
    \E title \in RangeTitles \cup ListTitles :
        Loaded(<<[title |-> title, series |-> "Yagyaa"]>>)

SpecCombo == InitCombo /\ [][Next]_vars

\* series whose names sort otherwise than they arrive and otherwise than
\* without case, a raw name that normalizes to another one, and combos that
\* share a series and a title
SeriesRecords ==
    {[title |-> "Zeta 1", series |-> "Zeta", issue |-> 1],
     [title |-> "alpha 1", series |-> "alpha"],
     [title |-> "Alpha Issue 2", series |-> "Alpha: Reborn"],
     [title |-> "Zeta Pack", series |-> "Zeta", issue |-> 3],
     [title |-> "Zeta Pack", series |-> "Zeta - Extra", issue |-> 4],
     [title |-> "Alpha Combo Issue 1-2", series |-> "Alpha"]}

MaxSeriesBatch == 3

InitSeries == \E batch \in Batches(SeriesRecords, MaxSeriesBatch) : Loaded(batch)

SpecSeries == InitSeries /\ [][Next]_vars

\* records with few fields: without title, with a title that names no
\* issue, with titles that name an issue, a book and a volume, with the
\* issue 0 in the field, a combo whose title names no issue, and a record
\* without series
SparseRecords ==
    {[series |-> "Yagyaa"],
     [title |-> "Yagyaa Issue 1"],
     [title |-> "???", series |-> "Yagyaa"],
     [title |-> "Yagyaa Issue #7", series |-> "Yagyaa"],
     [title |-> "Yagyaa Issue #7", series |-> "Yagyaa", issue |-> 0],
     [title |-> "Yagyaa Book 2 Issue 5", series |-> "Yagyaa"],
     [title |-> "Yagyaa Vol. 3 Book 2", series |-> "Yagyaa"],
     [title |-> "Yagyaa Vol. 3", series |-> "Yagyaa"],
     [title |-> "Yagyaa Combo", series |-> "Yagyaa"]}

MaxSparseBatch == 2

InitSparse == \E batch \in Batches(SparseRecords, MaxSparseBatch) : Loaded(batch)

\* WF_vars(ProcessItem), with ENABLED <<ProcessItem>>_vars written as the
\* guard of the action: every step of ProcessItem changes idx or pc
FairProcessItem ==
    []<>~(pc = "loop" /\ idx <= Len(data)) \/ []<><<ProcessItem>>_vars

\* the interpreter runs the loop and the return of organize_comic_data to
\* their end
SpecSparse ==
    InitSparse /\ [][Next]_vars /\ FairProcessItem /\ WF_vars(SortAndReturn)

\* what the loop of line 237 iterates when the loaded value is no list of
\* JSON objects: the elements of a list, among them strings, scalars and
\* lists, and the keys of a JSON object, which are strings
MalformedElements ==
    {[title |-> "Yagyaa Issue 1", series |-> "Yagyaa"],
     [json |-> "string", text |-> "name"],
     [json |-> "string", text |-> "title"],
     [json |-> "string", text |-> "series"],
     [json |-> "scalar"],
     [json |-> "array", elems |-> <<"name">>],
     [json |-> "array", elems |-> <<"name", "title">>]}

MaxMalformedBatch == 2

InitMalformed == \E batch \in Batches(MalformedElements, MaxMalformedBatch) : Loaded(batch)

SpecMalformed == InitMalformed /\ [][Next]_vars

\* a series name of more than 50 characters
LongSeries == "The Adventures of Captain Vyom and the Rangers of the Outer Rim"

\* records of two series whose names differ in case only, of a series
\* without issue number, and of a series with a long name: two variants of
\* its issue 1, one of its issue 2
CodeRecords ==
    {[title |-> "Alpha Issue 1", series |-> "Alpha"],
     [title |-> "alpha Issue 1", series |-> "alpha"],
     [title |-> "Dr Who", series |-> "Dr Who"],
     [title |-> "Captain Vyom", series |-> LongSeries, issue |-> 1],
     [title |-> "Captain Vyom", series |-> LongSeries, issue |-> 1, language |-> "Hindi",
      url |-> "u6"],
     [title |-> "Captain Vyom", series |-> LongSeries, issue |-> 2]}

MaxCodeBatch == 3

InitCodes == \E batch \in Batches(CodeRecords, MaxCodeBatch) : Loaded(batch)

SpecCodes == InitCodes /\ [][Next]_vars

(***************************************************************************)
(* Two calls of organize_comic_data                                        *)
(***************************************************************************)
\* lines 232-233: the empty defaultdict that a call makes for itself
NewStructure_shared == series_structure

NewStructure == << >>

\* lines 239-290 for the series index of a call: the index after the item
SeriesAfter(structure, item) ==
    IF is_publisher_item(item) \/ NoSeries(GetOpt(item, "series")) \/ is_combo_item(item)
    THEN structure
    ELSE AppendVariant(structure, normalize_series_name(item["series"]), ItemIssue(item),
                       [variant |-> extract_variant_info(item), item |-> item])

\* lines 239-259 for the combo index of a call: the index after the item
CombosAfter(structure, item) ==
    IF is_publisher_item(item) \/ NoSeries(GetOpt(item, "series")) \/ ~is_combo_item(item)
    THEN structure
    ELSE SetCombo(structure, normalize_series_name(item["series"]),
                  Get(item, "title", "Unknown Combo"),
                  [issues |-> extract_combo_issues(item), item |-> item])

RECURSIVE SeriesOf(_)
\* the series index of the loop of line 237 over the whole batch
SeriesOf(batch) ==
    IF batch = << >> THEN << >>
    ELSE SeriesAfter(SeriesOf(SubSeq(batch, 1, Len(batch) - 1)), batch[Len(batch)])

RECURSIVE CombosOf(_)
\* the combo index of the loop of line 237 over the whole batch
CombosOf(batch) ==
    IF batch = << >> THEN << >>
    ELSE CombosAfter(CombosOf(SubSeq(batch, 1, Len(batch) - 1)), batch[Len(batch)])

\* organize_comic_data run alone on a batch of records
organize_comic_data(batch) ==
    [series |-> SortSeries(SeriesOf(batch)), combos |-> CombosOf(batch)]

\* the batches of the first and of the second call: different records of
\* the same series
FirstRecords ==
    {[title |-> "Yagyaa Issue 1", series |-> "Yagyaa", issue |-> 1],
     [title |-> "Yagyaa Combo Pack", series |-> "Yagyaa"],
     [title |-> "Yagyaa Origins Issue 2", series |-> "Yagyaa Origins"]}

SecondRecords ==
    {[title |-> "Yagyaa Issue 1 Variant", series |-> "Yagyaa", issue |-> 1, url |-> "b1"],
     [title |-> "Yagyaa Combo Pack", series |-> "Yagyaa", url |-> "b2"],
     [name |-> "Bullseye Press", series |-> "Yagyaa"]}

MaxCallBatch == 2

InitTwoCalls == \E batch \in Batches(FirstRecords, MaxCallBatch) : Loaded(batch)

\* a second call of organize_comic_data begins, before, during or after
\* the first: its arguments and locals are the frame in the variable call
CallOrganize ==
    /\ pc \in {"loop", "done"}
    /\ call = NoCall
    /\ \E batch \in Batches(SecondRecords, MaxCallBatch) :
          call' = [fn |-> "organize_comic_data", data |-> batch, idx |-> 1,
                   series_structure |-> NewStructure, combo_structure |-> NewStructure]
    /\ UNCHANGED <<data, pc, idx, series_structure, combo_structure, organized_data,
                   hierarchical, objects, returned>>
    /\ UNCHANGED crawlVars

\* lines 237-290 in the second call
CallProcessItem ==
    /\ call.fn = "organize_comic_data"
    /\ call.idx <= Len(call.data)
    /\ call' = [call EXCEPT
                  !.series_structure = SeriesAfter(@, call.data[call.idx]),
                  !.combo_structure = CombosAfter(@, call.data[call.idx]),
                  !.idx = @ + 1]
    /\ UNCHANGED <<data, pc, idx, series_structure, combo_structure, organized_data,
                   hierarchical, objects, returned>>
    /\ UNCHANGED crawlVars

\* lines 292-304 in the second call
CallSortAndReturn ==
    /\ call.fn = "organize_comic_data"
    /\ call.idx > Len(call.data)
    /\ returned = << >>
    /\ returned' = <<[series |-> SortSeries(call.series_structure),
                      combos |-> call.combo_structure]>>
    /\ UNCHANGED <<data, pc, idx, series_structure, combo_structure, organized_data,
                   hierarchical, objects, call>>
    /\ UNCHANGED crawlVars

NextTwoCalls ==
    ProcessItem \/ SortAndReturn \/ CallOrganize \/ CallProcessItem \/ CallSortAndReturn

SpecTwoCalls == InitTwoCalls /\ [][NextTwoCalls]_vars

(***************************************************************************)
(* JsonExportPipeline (comic_scraper/pipelines.py)                         *)
(***************************************************************************)
\* no batch is loaded and no function of the batch runner is called
NoBatch ==
    /\ data = << >>
    /\ pc = "idle"
    /\ idx = 1
    /\ series_structure = << >>
    /\ combo_structure = << >>
    /\ organized_data = << >>
    /\ hierarchical = << >>
    /\ objects = << >>
    /\ call = NoCall
    /\ returned = << >>

\* lines 46-49 and 70-73: the file name made of the time now; the time is
\* the name
FileName(now) == now

\* a read that finds no item in the file
ReadItems_empty(fs, filename) == << >>

\* lines 77-81: the items of the file, or [] when the file is not there
ReadItems(fs, filename) ==
    IF HasKey(fs, filename) THEN DictGet(fs, filename).items ELSE << >>

\* lines 52-53 and 88-100: the file gets the items, at the time now; the
\* temporary file and its rename leave the file whole at every time
WriteItems(fs, filename, items, now) ==
    DictSet(fs, filename, [mtime |-> now, items |-> items])

\* the items that a spider yields
Items ==
    {[name |-> "Bullseye Press"],
     [title |-> "Yagyaa Issue 1", series |-> "Yagyaa"],
     [title |-> "Yagyaa Issue 2", series |-> "Yagyaa"]}

MaxItems == 4

\* lines 35-55: open_spider, which Scrapy calls once, before the items
open_spider ==
    /\ pipeline.filename = None
    /\ processed = << >>
    /\ pipeline' = [pipeline EXCEPT !.filename = <<FileName(clock)>>]
    /\ files' = WriteItems(files, FileName(clock), << >>, clock)
    /\ clock' = clock + 1
    /\ UNCHANGED <<processed, runs, visited_urls, publisher_yielded, got_404, requests>>
    /\ UNCHANGED organizeVars

\* lines 62-73: the file name of the pipeline, made now when there is none
FileNameOf(p, now) == IF p.filename = None THEN FileName(now) ELSE p.filename[1]

\* lines 57-108: process_item(item)
process_item(item) ==
    /\ Len(processed) < MaxItems
    /\ pipeline' = [filename |-> <<FileNameOf(pipeline, clock)>>,
                    item_count |-> Len(ReadItems(files, FileNameOf(pipeline, clock))) + 1]
    /\ files' = WriteItems(files, FileNameOf(pipeline, clock),
                           Append(ReadItems(files, FileNameOf(pipeline, clock)), item),
                           clock)
    /\ processed' = Append(processed, item)
    /\ clock' = clock + 1
    /\ UNCHANGED <<runs, visited_urls, publisher_yielded, got_404, requests>>
    /\ UNCHANGED organizeVars

InitPipeline == NoBatch /\ NoCrawl

NextPipeline == open_spider \/ \E item \in Items : process_item(item)

SpecPipeline == InitPipeline /\ [][NextPipeline]_vars

(***************************************************************************)
(* run_scrapy_spider (app/tasks.py), called by the scheduler and by        *)
(* /trigger_job for the same spider                                        *)
(***************************************************************************)
\* who calls run_scrapy_spider: the job of add_job_from_cron (scheduler.py,
\* lines 17-28; max_instances=1 keeps it to one run at a time) and the
\* background task of trigger_scrape (jobsApi.py, lines 13-20)
Origins == {"scheduler", "trigger_job"}

\* how many items the crawl of one run writes at most
MaxRunItems == 2

\* a run that has not begun
IdleRun == [pc |-> "idle", filename |-> None, latest_file |-> None, count |-> None]

\* tasks.py, lines 31-33: the index of the file with the latest
\* modification time among the files of the folder
LatestIndex(fs) ==
    CHOOSE k \in 1..Len(fs) : \A j \in 1..Len(fs) : fs[j][2].mtime <= fs[k][2].mtime

\* tasks.py, lines 17-35: the name of that file, or None when the folder
\* has no file
_find_latest_output_file(fs) ==
    IF fs = << >> THEN None ELSE Some(fs[LatestIndex(fs)][1])

\* tasks.py, lines 38-46: the number of records of the file
_count_records_in_json(fs, path) == Some(Len(DictGet(fs, path).items))

\* tasks.py, lines 226-247: the run begins and starts the crawl as a
\* subprocess
StartRun(o) ==
    /\ runs[o].pc = "idle"
    /\ runs' = [runs EXCEPT ![o].pc = "crawl"]
    /\ UNCHANGED <<files, clock, pipeline, processed, visited_urls, publisher_yielded, got_404, requests>>
    /\ UNCHANGED organizeVars

\* pipelines.py, lines 35-55, in the subprocess of the run: the crawl makes
\* its file, named by the time now
CrawlOpens(o) ==
    /\ runs[o].pc = "crawl"
    /\ runs' = [runs EXCEPT ![o].pc = "open", ![o].filename = <<FileName(clock)>>]
    /\ files' = WriteItems(files, FileName(clock), << >>, clock)
    /\ clock' = clock + 1
    /\ UNCHANGED <<pipeline, processed, visited_urls, publisher_yielded, got_404, requests>>
    /\ UNCHANGED organizeVars

\* pipelines.py, lines 57-108, in the subprocess of the run: the crawl
\* writes one more item to its file
CrawlWrites(o) ==
    /\ runs[o].pc = "open"
    /\ Len(ReadItems(files, runs[o].filename[1])) < MaxRunItems
    /\ \E item \in Items :
          files' = WriteItems(files, runs[o].filename[1],
                              Append(ReadItems(files, runs[o].filename[1]), item), clock)
    /\ clock' = clock + 1
    /\ UNCHANGED <<runs, pipeline, processed, visited_urls, publisher_yielded, got_404, requests>>
    /\ UNCHANGED organizeVars

\* tasks.py, lines 247-263: the subprocess ends; a return code other than
\* 0 ends the run with the message of failure
CrawlEnds(o) ==
    /\ runs[o].pc = "open"
    /\ \E returncode \in {0, 1} :
          runs' = [runs EXCEPT ![o].pc = IF returncode = 0 THEN "finished" ELSE "failed"]
    /\ UNCHANGED <<files, clock, pipeline, processed, visited_urls, publisher_yielded, got_404, requests>>
    /\ UNCHANGED organizeVars

\* tasks.py, lines 264-283: after a crawl with return code 0 the run finds
\* the latest file, counts its records, inserts them and reports them
ReportRun(o) ==
    /\ runs[o].pc = "finished"
    /\ runs' = [runs EXCEPT
                  ![o].pc = "done",
                  ![o].latest_file = _find_latest_output_file(files),
                  ![o].count = IF _find_latest_output_file(files) = None THEN None
                               ELSE _count_records_in_json(
                                        files, _find_latest_output_file(files)[1])]
    /\ UNCHANGED <<files, clock, pipeline, processed, visited_urls, publisher_yielded, got_404, requests>>
    /\ UNCHANGED organizeVars

InitRuns ==
    /\ NoBatch
    /\ files = << >>
    /\ clock = 0
    /\ runs = [o \in Origins |-> IdleRun]
    /\ pipeline = NewPipeline
    /\ processed = << >>
    /\ visited_urls = {}
    /\ publisher_yielded = FALSE
    /\ got_404 = FALSE
    /\ requests = << >>

NextRuns ==
    \E o \in Origins :
        StartRun(o) \/ CrawlOpens(o) \/ CrawlWrites(o) \/ CrawlEnds(o) \/ ReportRun(o)

SpecRuns == InitRuns /\ [][NextRuns]_vars

(***************************************************************************)
(* BullseyePressSpider (comic_scraper/spiders/bullseye_press_spider.py)    *)
(***************************************************************************)
\* line 23
start_urls == <<"https://bullseyepress.in/shop/">>

\* how many listing pages the links of the shop name
MaxPage == 3

\* how many products the shop has
MaxProducts == 3

\* lines 193-194: the URL of the listing page n
PageUrl(n) == "https://bullseyepress.in/shop/page/" \o ToStr(n) \o "/"

\* the page numbers of the listing URLs of a crawl: a page is followed
\* only from a page that shows a product that no page before it has shown
PageNumbers == 1..(MaxPage + MaxProducts)

\* lines 133 and 158: whether the URL has a page number
HasPageNumber(url) == \E n \in PageNumbers : url = PageUrl(n)

\* lines 132-139 and 158-163: the page number of the URL, 1 for a URL that
\* has none
CurrentPage(url) ==
    IF HasPageNumber(url) THEN CHOOSE n \in PageNumbers : url = PageUrl(n) ELSE 1

\* the listing URLs that the links of a page name
ListingUrls == {start_urls[1]} \cup {PageUrl(n) : n \in 2..MaxPage}

\* the URLs of the products of the shop
ProductUrls ==
    {"https://bullseyepress.in/product/yagyaa-issue-" \o ToStr(k) \o "/" :
        k \in 1..MaxProducts}

\* the lists of page number links that one of the selectors of lines
\* 142-147 finds on a page, in the order of the page
PageNumberLists ==
    {<< >>,
     <<<<start_urls[1], PageUrl(2), PageUrl(3)>>>>,
     <<<<start_urls[1], PageUrl(2), PageUrl(3)>>, <<PageUrl(3), PageUrl(2)>>>>}

\* the pages that the site answers a request of the URL with: the links to
\* products, the link to the next page, the page number links and the URL
\* of the load more button are as the site likes
Responses(url) ==
    [url : {url}, status : {200, 404}, products : SUBSET ProductUrls,
     next : {None} \cup {Some(u) : u \in ListingUrls},
     page_numbers : PageNumberLists,
     load_more : {None, Some(start_urls[1])}]

\* lines 55-84: the product links of the page that are not in visited_urls
ProductLinks(response, visited) == {u \in response.products : u \notin visited}

\* lines 124, 205 and 221: a link that may be followed from the page
MayFollow(u, response, visited) == u \notin visited /\ u # response.url

\* lines 110-126: the link to the next page
NextLinks(response, visited) ==
    IF response.next # None /\ MayFollow(response.next[1], response, visited)
    THEN {response.next[1]} ELSE {}

\* lines 154-165: a page number link of a later page
LaterPage(u, response, visited) ==
    /\ MayFollow(u, response, visited)
    /\ HasPageNumber(u)
    /\ CurrentPage(u) > CurrentPage(response.url)

\* lines 148-167: of each selector the first page number link of a later
\* page; the break of line 167 ends the links of one selector
PageNumberLinks(response, visited) ==
    {links[Min({k \in 1..Len(links) : LaterPage(links[k], response, visited)})] :
        links \in {response.page_numbers[s] : s \in
                     {t \in 1..Len(response.page_numbers) :
                        \E k \in 1..Len(response.page_numbers[t]) :
                            LaterPage(response.page_numbers[t][k], response, visited)}}}

\* lines 171-207: the URL of the next page, made of the URL of the page
ConstructedLinks(response, visited) ==
    IF MayFollow(PageUrl(CurrentPage(response.url) + 1), response, visited)
    THEN {PageUrl(CurrentPage(response.url) + 1)} ELSE {}

\* lines 210-223: the URL of the load more button
LoadMoreLinks(response, visited) ==
    IF response.load_more # None /\ MayFollow(response.load_more[1], response, visited)
    THEN {response.load_more[1]} ELSE {}

\* the first of the sets that is not empty
FirstOf(a, b, c, d) == IF a # {} THEN a ELSE IF b # {} THEN b ELSE IF c # {} THEN c ELSE d

\* lines 107-223: pagination_links
PaginationLinks(response, visited) ==
    FirstOf(NextLinks(response, visited), PageNumberLinks(response, visited),
            ConstructedLinks(response, visited), LoadMoreLinks(response, visited))

\* lines 97-105 and 226-238: what the page may follow of its pagination
\* links, which is one link, any of them, or none
Followed(product_links, pagination_links, visited, stopped) ==
    IF product_links = {} \/ stopped \/ pagination_links \ visited = {}
    THEN {{}}
    ELSE {{u} : u \in pagination_links \ visited}

\* lines 91-95 and 232-237: the request that follows the link
Follow(u, callback, errback) ==
    [url |-> u, callback |-> callback, errback |-> errback, answered |-> FALSE]

RECURSIVE FollowAll(_, _, _)
\* lines 89-95 and 229-238: the requests that follow the links
FollowAll(links, callback, errback) ==
    IF links = {} THEN << >>
    ELSE <<Follow(CHOOSE u \in links : TRUE, callback, errback)>>
         \o FollowAll(links \ {CHOOSE u \in links : TRUE}, callback, errback)

\* lines 38-47: parse(response) of a response with the status 404
ParseNotFound(i) ==
    /\ got_404' = TRUE
    /\ requests' = [requests EXCEPT ![i].answered = TRUE]
    /\ UNCHANGED <<visited_urls, publisher_yielded>>

\* lines 49-243: parse(response) of a page
ParsePage(i, response) ==
    /\ publisher_yielded' = TRUE
    /\ \E followed \in Followed(ProductLinks(response, visited_urls),
                               PaginationLinks(response, visited_urls
                                   \cup ProductLinks(response, visited_urls)),
                               visited_urls \cup ProductLinks(response, visited_urls),
                               got_404) :
          /\ visited_urls' = visited_urls \cup ProductLinks(response, visited_urls)
                                \cup followed
          /\ requests' = [requests EXCEPT ![i].answered = TRUE]
                            \o FollowAll(ProductLinks(response, visited_urls),
                                         "parse_product_detail", FALSE)
                            \o FollowAll(followed, "parse", TRUE)
    /\ UNCHANGED got_404

\* lines 38-243: parse(response), the callback of the request i
parse(i, response) ==
    /\ requests[i].callback = "parse"
    /\ ~requests[i].answered
    /\ IF response.status = 404 THEN ParseNotFound(i) ELSE ParsePage(i, response)
    /\ UNCHANGED <<files, clock, runs, pipeline, processed>>
    /\ UNCHANGED organizeVars

\* the statuses of a failure with a response
ErrorStatuses == {404, 500}

\* lines 245-256: handle_http_error(failure), the errback of the request i
handle_http_error(i, status) ==
    /\ requests[i].errback
    /\ ~requests[i].answered
    /\ got_404' = (got_404 \/ status = 404)
    /\ requests' = [requests EXCEPT ![i].answered = TRUE]
    /\ UNCHANGED <<files, clock, runs, pipeline, processed, visited_urls, publisher_yielded>>
    /\ UNCHANGED organizeVars

\* lines 275-end: parse_product_detail(response), the callback of the
\* request i, which leaves the fields of the spider alone
parse_product_detail(i) ==
    /\ requests[i].callback = "parse_product_detail"
    /\ ~requests[i].answered
    /\ requests' = [requests EXCEPT ![i].answered = TRUE]
    /\ UNCHANGED <<files, clock, runs, pipeline, processed, visited_urls,
                   publisher_yielded, got_404>>
    /\ UNCHANGED organizeVars

\* lines 23 and 32-36: the spider as __init__ leaves it and the request
\* of the start URL, whose callback is parse
InitSpider ==
    /\ NoBatch
    /\ files = << >>
    /\ clock = 0
    /\ runs = << >>
    /\ pipeline = NewPipeline
    /\ processed = << >>
    /\ visited_urls = {}
    /\ publisher_yielded = FALSE
    /\ got_404 = FALSE
    /\ requests = <<Follow(start_urls[1], "parse", FALSE)>>

NextSpider ==
    \/ \E i \in 1..Len(requests) :
          \E response \in Responses(requests[i].url) : parse(i, response)
    \/ \E i \in 1..Len(requests) :
          \E status \in ErrorStatuses : handle_http_error(i, status)
    \/ \E i \in 1..Len(requests) : parse_product_detail(i)

SpecSpider == InitSpider /\ [][NextSpider]_vars

(***************************************************************************)
(* Calls of one function                                                   *)
(***************************************************************************)
\* the texts made of at most n of the tokens
RECURSIVE TextsOf(_, _)
TextsOf(tokens, n) ==
    IF n = 0 THEN {""}
    ELSE TextsOf(tokens, n - 1) \cup {t \o tok : t \in TextsOf(tokens, n - 1), tok \in tokens}

\* a text of 49 characters: one more word makes a code longer than 50
LongText == "abcdefghijklmnopqrstuvwxyzabcdefghijklmnopqrstuvw"

CodeTokens == {LongText, "Example Series", "A", "9", " ", "!", "_"}

MaxCodeTokens == 3

\* the prefixes of series codes and of variant codes
CodePrefixes == {"ser", "var"}

NameTokens ==
    {"Solomon", "Raj Rahman", "Spider-Man", "Born Again", "Ab", "2099",
     ": ", ":", " - ", "~", " Origins"}

MaxNameTokens == 3

\* titles with each keyword of the variant types and titles without
DescriptorTitles ==
    {"Yagyaa Issue 1", "Yagyaa Variant", "Yagyaa Variant Cover", "Yagyaa Variant by",
     "Yagyaa Variant Cover by Art", "Yagyaa Regular Cover", "Yagyaa Default",
     "Yagyaa Blank Cover", "Yagyaa Homage", "Yagyaa Wraparound", "Yagyaa Hand Painted",
     "Yagyaa Sketch", "Yagyaa Director's Cut", "Yagyaa Action Figure", "Yagyaa Poster"}

\* items with such a title and any of language, cover_artist and binding
DescriptorItems ==
    {[f \in fields |-> full[f]] :
        full \in [title : DescriptorTitles, language : {"", "Hindi"},
                  cover_artist : {"Art"}, binding : {"Paperback", "Hardcover"}],
        fields \in {fs \in SUBSET {"title", "language", "cover_artist", "binding"} :
                      "title" \in fs}}

\* the calls of generate_code, normalize_series_name and extract_variant_info
Calls ==
    {[fn |-> "generate_code", text |-> text, prefix |-> prefix] :
        text \in TextsOf(CodeTokens, MaxCodeTokens), prefix \in CodePrefixes}
    \cup {[fn |-> "normalize_series_name", series_name |-> name] :
             name \in TextsOf(NameTokens, MaxNameTokens)}
    \cup {[fn |-> "extract_variant_info", item |-> item] : item \in DescriptorItems}

\* the state before the calls of the call c: no batch is loaded
InitCalls ==
    /\ call \in Calls
    /\ returned = << >>
    /\ data = << >>
    /\ pc = "idle"
    /\ idx = 1
    /\ series_structure = << >>
    /\ combo_structure = << >>
    /\ organized_data = << >>
    /\ hierarchical = << >>
    /\ objects = << >>
    /\ NoCrawl

\* generate_code(text, prefix), called again and again
CallGenerateCode ==
    /\ call["fn"] = "generate_code"
    /\ Len(returned) < MaxRuns
    /\ returned' = Append(returned, generate_code(call["text"], call["prefix"]))
    /\ UNCHANGED <<data, pc, idx, series_structure, combo_structure, organized_data,
                   hierarchical, objects, call>>
    /\ UNCHANGED crawlVars

\* normalize_series_name(series_name)
CallNormalizeSeriesName ==
    /\ call["fn"] = "normalize_series_name"
    /\ returned = << >>
    /\ returned' = <<normalize_series_name(call["series_name"])>>
    /\ UNCHANGED <<data, pc, idx, series_structure, combo_structure, organized_data,
                   hierarchical, objects, call>>
    /\ UNCHANGED crawlVars

\* extract_variant_info(item)
CallExtractVariantInfo ==
    /\ call["fn"] = "extract_variant_info"
    /\ returned = << >>
    /\ returned' = <<extract_variant_info(call["item"])>>
    /\ UNCHANGED <<data, pc, idx, series_structure, combo_structure, organized_data,
                   hierarchical, objects, call>>
    /\ UNCHANGED crawlVars

NextCalls == CallGenerateCode \/ CallNormalizeSeriesName \/ CallExtractVariantInfo

SpecCalls == InitCalls /\ [][NextCalls]_vars

(***************************************************************************)
(* Properties of the reconciliation result                                 *)
(***************************************************************************)
\* the record has a non-empty series field
HasSeries(r) == Has(r, "series") /\ r["series"] # ""

\* the record is one that must become a Variant
IsVariantRecord(r) == ~is_publisher_item(r) /\ ~is_combo_item(r) /\ HasSeries(r)

\* the places of the Variants of a series index: <<series, issue, position>>
VariantSlots(series) ==
    UNION {UNION {{<<s, i, j>> : j \in 1..Len(series[s][2][i][2])} :
                     i \in 1..Len(series[s][2])} :
              s \in 1..Len(series)}

SlotItem(series, x) == series[x[1]][2][x[2]][2][x[3]].item

\* the places of the Combos of a combo index: <<series, position>>
ComboSlots(combos) ==
    UNION {{<<s, c>> : c \in 1..Len(combos[s][2])} : s \in 1..Len(combos)}

ComboSlotItem(combos, x) == combos[x[1]][2][x[2]][2].item

\* C1: after reconcile every record that is no Publisher, is not classified
\* as Combo and has a non-empty series is exactly one Variant of exactly one
\* bucket, the bucket of its normalized series, and the series index holds
\* as many Variants as there are such records.
C1_Completeness ==
    pc = "done" =>
        LET series == organized_data[1].series
            slots == VariantSlots(series)
        IN /\ \A k \in 1..Len(data) :
                IsVariantRecord(data[k]) =>
                    LET at == {x \in slots : SlotItem(series, x) = data[k]}
                    IN /\ Cardinality(at) = Cardinality({m \in 1..Len(data) : data[m] = data[k]})
                       /\ \A x, y \in at : x[1] = y[1] /\ x[2] = y[2]
                       /\ \A x \in at :
                            series[x[1]][1] = normalize_series_name(data[k]["series"])
           /\ \A a, b \in 1..Len(series) : series[a][1] = series[b][1] => a = b
           /\ Cardinality(slots) = Cardinality({k \in 1..Len(data) : IsVariantRecord(data[k])})

\* C1 witness: a batch of two records that become Variants and one that
\* does not has been reconciled
C1_Witness ==
    /\ pc = "done"
    /\ Cardinality({k \in 1..Len(data) : IsVariantRecord(data[k])}) = 2
    /\ \E k \in 1..Len(data) : ~IsVariantRecord(data[k])
    /\ Cardinality(VariantSlots(organized_data[1].series)) = 2

\* C2: after reconcile a record whose series field is absent or empty is in
\* neither index, whatever its title and issue are.
C2_Exclusion ==
    pc = "done" =>
        LET org == organized_data[1]
        IN \A k \in 1..Len(data) :
              ~HasSeries(data[k]) =>
                  /\ \A x \in VariantSlots(org.series) : SlotItem(org.series, x) # data[k]
                  /\ \A x \in ComboSlots(org.combos) : ComboSlotItem(org.combos, x) # data[k]

\* C2 witness: a batch with a record without series, a record with an empty
\* series and a placed record has been reconciled
C2_Witness ==
    /\ pc = "done"
    /\ \E k \in 1..Len(data) : ~is_publisher_item(data[k]) /\ ~Has(data[k], "series")
    /\ \E k \in 1..Len(data) : Has(data[k], "series") /\ data[k]["series"] = ""
    /\ organized_data[1].series # << >>

\* the combo keywords of the classifier
ComboWords ==
    {"combo", "bundle", "set", "pack", "all variants", "combo of", "all variant",
     "variants combo"}

\* the lowercased title of the record contains a combo keyword
HasComboTitle(r) ==
    Has(r, "title") /\ \E w \in ComboWords : Contains(Lower(r["title"]), w)

\* C3: after reconcile a record that is no Publisher, has a series and a
\* combo title is under comboIndex[normalized series][title] and is no
\* Variant of any bucket, and every record of the combo index has a combo
\* title.
C3_ComboSeparation ==
    pc = "done" =>
        LET org == organized_data[1]
        IN /\ \A k \in 1..Len(data) :
                (~is_publisher_item(data[k]) /\ HasSeries(data[k]) /\ HasComboTitle(data[k])) =>
                    /\ \E x \in ComboSlots(org.combos) :
                          /\ org.combos[x[1]][1] = normalize_series_name(data[k]["series"])
                          /\ org.combos[x[1]][2][x[2]][1] = data[k]["title"]
                    /\ \A x \in VariantSlots(org.series) : SlotItem(org.series, x) # data[k]
           /\ \A x \in ComboSlots(org.combos) : HasComboTitle(ComboSlotItem(org.combos, x))

\* C3 witness: a batch with a combo record and a variant record has been
\* reconciled into a combo and a Variant
C3_Witness ==
    /\ pc = "done"
    /\ ComboSlots(organized_data[1].combos) # {}
    /\ VariantSlots(organized_data[1].series) # {}

\* C4: two Variants are under the same Series key exactly when their raw
\* series names have the same normalized name; "Yagyaa Origins" and "Yagyaa"
\* both normalize to "Yagyaa" and records with these names are under the one
\* key "Yagyaa".
C4_SeriesMerge ==
    /\ normalize_series_name("Yagyaa Origins") = "Yagyaa"
    /\ normalize_series_name("Yagyaa") = "Yagyaa"
    /\ pc = "done" =>
          LET series == organized_data[1].series
              slots == VariantSlots(series)
          IN /\ \A x, y \in slots :
                   (x[1] = y[1]) <=>
                       (normalize_series_name(SlotItem(series, x)["series"])
                          = normalize_series_name(SlotItem(series, y)["series"]))
             /\ \A x \in slots :
                   SlotItem(series, x)["series"] \in {"Yagyaa Origins", "Yagyaa"}
                       => series[x[1]][1] = "Yagyaa"

\* C4 witness: a record of "Yagyaa Origins" and a record of "Yagyaa" are
\* Variants of one series, next to a second series
C4_Witness ==
    /\ pc = "done"
    /\ LET series == organized_data[1].series
       IN /\ Len(series) = 2
          /\ \E x, y \in VariantSlots(series) :
                /\ x[1] = y[1]
                /\ SlotItem(series, x)["series"] = "Yagyaa Origins"
                /\ SlotItem(series, y)["series"] = "Yagyaa"

\* issue a is numbered and stands before issue b: b has a greater number
\* or none
IssueBefore(a, b) == a # None /\ (b = None \/ a[1] < b[1])

\* the key of a bucket in the hierarchical projection
BucketLabel(issue) == IF issue = None THEN "no_issue" ELSE "issue_" \o ToStr(issue[1])

\* the issue objects of an object-oriented output
IssueList(output) == output[Len(output)].data

\* C5: in the result of reconcile the issue buckets of every series stand in
\* ascending numeric issue number with the bucket without number last,
\* whatever the order of arrival of the records, and both projections emit
\* them in that order; records with the issue numbers [3, absent, 1, 2] give
\* the issue order [1, 2, 3, absent].
C5_IssueOrdering ==
    pc = "done" =>
        \A s \in 1..Len(organized_data[1].series) :
            LET name == organized_data[1].series[s][1]
                issues == organized_data[1].series[s][2]
            IN /\ \A i, j \in 1..Len(issues) :
                     i < j => IssueBefore(issues[i][1], issues[j][1])
               /\ \A h \in 1..Len(hierarchical) :
                     /\ HasKey(hierarchical[h].series, name)
                     /\ DictKeys(DictGet(hierarchical[h].series, name))
                          = [i \in 1..Len(issues) |-> BucketLabel(issues[i][1])]
               /\ \A o \in 1..Len(objects) :
                     /\ Cardinality({i \in 1..Len(IssueList(objects[o])) :
                                        IssueList(objects[o])[i].series_code
                                          = generate_code(name, "ser")}) = Len(issues)
                     /\ \A i, j \in 1..Len(IssueList(objects[o])) :
                           (/\ i < j
                            /\ IssueList(objects[o])[i].series_code
                                 = IssueList(objects[o])[j].series_code)
                           => IssueBefore(GetOpt(IssueList(objects[o])[i], "issue_number"),
                                          GetOpt(IssueList(objects[o])[j], "issue_number"))

\* C5 witness: the records of one series arrived with the issue numbers
\* [3, absent, 1, 2]; the result and both projections have the issues in
\* the order [1, 2, 3, absent]
C5_Witness ==
    /\ pc = "done"
    /\ Len(data) = 4
    /\ [k \in 1..4 |-> GetOpt(data[k], "issue")] = <<<<3>>, << >>, <<1>>, <<2>>>>
    /\ Len(organized_data[1].series) = 1
    /\ DictKeys(organized_data[1].series[1][2]) = <<<<1>>, <<2>>, <<3>>, << >>>>
    /\ Len(hierarchical) = 1
    /\ DictKeys(hierarchical[1].series[1][2])
         = <<"issue_1", "issue_2", "issue_3", "no_issue">>
    /\ Len(objects) = 1
    /\ Len(IssueList(objects[1])) = 4
    /\ [k \in 1..4 |-> GetOpt(IssueList(objects[1])[k], "issue_number")]
         = <<<<1>>, <<2>>, <<3>>, << >>>>

\* the Variants of one bucket stand as their records stand in the batch
InArrivalOrder(variants) ==
    \A i, j \in 1..Len(variants) :
        i < j => \E p, q \in 1..Len(data) :
                    p < q /\ data[p] = variants[i].item /\ data[q] = variants[j].item

\* that holds for every bucket of every series of a series index
BucketsInArrivalOrder(series) ==
    \A s \in 1..Len(series) :
        \A b \in 1..Len(series[s][2]) : InArrivalOrder(series[s][2][b][2])

\* C6: in every bucket of every series the Variants stand in the relative
\* order in which their records stand in the input batch, while the batch
\* is processed and after the final sort of the issue buckets.
C6_OrderPreservation ==
    /\ BucketsInArrivalOrder(series_structure)
    /\ pc = "done" => BucketsInArrivalOrder(organized_data[1].series)

\* C6 witness: issue 3 arrived before the two records of issue 2; the sort
\* has put issue 2 first and its two Variants are in their order of arrival
C6_Witness ==
    /\ pc = "done"
    /\ Len(data) = 3
    /\ [k \in 1..3 |-> GetOpt(data[k], "issue")] = <<<<3>>, <<2>>, <<2>>>>
    /\ Len(organized_data[1].series) = 1
    /\ DictKeys(organized_data[1].series[1][2]) = <<<<2>>, <<3>>>>
    /\ [j \in 1..Len(organized_data[1].series[1][2][1][2]) |->
          organized_data[1].series[1][2][1][2][j].item] = <<data[2], data[3]>>

\* the issues of the combo at a place of a combo index
ComboSlotIssues(combos, x) == combos[x[1]][2][x[2]][2].issues

\* C7: a combo whose title contains a range "Issue N-M", with a hyphen or
\* an en dash and N <= M, has exactly the issues N, N+1, ..., M.
C7_ComboRange ==
    pc = "done" =>
        \A x \in ComboSlots(organized_data[1].combos) :
            \A n, m \in 1..MaxIssueNo, dash \in Dashes :
                (/\ n <= m
                 /\ Contains(ComboSlotItem(organized_data[1].combos, x)["title"],
                             "Issue " \o ToStr(n) \o dash \o ToStr(m)))
                => ComboSlotIssues(organized_data[1].combos, x) = Range(n, m)

\* C8: a combo whose title is a list "Issue N, M" or "Issue N, M, K",
\* separated by commas or an ampersand and without a range, has exactly the
\* listed numbers, each once and ascending.
C8_ComboList ==
    pc = "done" =>
        \A x \in ComboSlots(organized_data[1].combos) :
            \A lead \in ComboLeads, n, m \in 1..MaxIssueNo, sep \in {", ", " & ", ","} :
                /\ ComboSlotItem(organized_data[1].combos, x)["title"]
                     = lead \o "Issue " \o ToStr(n) \o sep \o ToStr(m)
                   => ComboSlotIssues(organized_data[1].combos, x) = SetToSeq({n, m})
                /\ \A k \in 1..MaxIssueNo :
                      ComboSlotItem(organized_data[1].combos, x)["title"]
                        = lead \o "Issue " \o ToStr(n) \o sep \o ToStr(m) \o ", " \o ToStr(k)
                      => ComboSlotIssues(organized_data[1].combos, x) = SetToSeq({n, m, k})

\* the outputs of the calls of one formatter are the same
AllSame(outputs) == \A i, j \in 1..Len(outputs) : outputs[i] = outputs[j]

C10_HierarchicalShape ==
    pc = "done" =>
        \A h \in 1..Len(hierarchical), s \in 1..Len(organized_data[1].series) :
            LET name == organized_data[1].series[s][1]
                issues == organized_data[1].series[s][2]
            IN /\ HasKey(hierarchical[h].series, name)
               /\ \A b \in 1..Len(issues) :
                     /\ HasKey(DictGet(hierarchical[h].series, name), BucketLabel(issues[b][1]))
                     /\ [j \in 1..Len(issues[b][2]) |-> issues[b][2][j].variant]
                          = [j \in 1..Len(DictGet(DictGet(hierarchical[h].series, name),
                                                  BucketLabel(issues[b][1]))) |->
                               DictGet(DictGet(hierarchical[h].series, name),
                                       BucketLabel(issues[b][1]))[j].variant]

\* C10 witness: series "Raj Rahman" got issue 2 in English, then issue 2 in
\* Hindi, then a record without issue number; the projection has an issue_2
\* array of two entries, "English" then "Hindi", and a no_issue array
C10_Witness ==
    /\ pc = "done"
    /\ Len(data) = 3
    /\ [k \in 1..3 |-> Get(data[k], "language", "")] = <<"English", "Hindi", "">>
    /\ [k \in 1..3 |-> GetOpt(data[k], "issue")] = <<<<2>>, <<2>>, << >>>>
    /\ Len(hierarchical) = 1
    /\ HasKey(hierarchical[1].series, "Raj Rahman")
    /\ DictKeys(DictGet(hierarchical[1].series, "Raj Rahman")) = <<"issue_2", "no_issue">>
    /\ Len(DictGet(DictGet(hierarchical[1].series, "Raj Rahman"), "issue_2")) = 2
    /\ Contains(DictGet(DictGet(hierarchical[1].series, "Raj Rahman"), "issue_2")[1].variant,
                "English")
    /\ Contains(DictGet(DictGet(hierarchical[1].series, "Raj Rahman"), "issue_2")[2].variant,
                "Hindi")
    /\ Len(DictGet(DictGet(hierarchical[1].series, "Raj Rahman"), "no_issue")) = 1

RECURSIVE ExpectedIssueObjects(_, _, _)
\* <<series code, issue number>> of the issue objects that stand for the
\* buckets of the series of the first k series objects of an output
ExpectedIssueObjects(output, series, k) ==
    IF k = 0 THEN << >>
    ELSE ExpectedIssueObjects(output, series, k - 1)
         \o [b \in 1..Len(DictGet(series, output[k]["name"])) |->
               <<output[k]["code"], DictGet(series, output[k]["name"])[b][1]>>]

\* <<series code, issue number>> of the issue objects of an output
EmittedIssueObjects(output) ==
    [i \in 1..Len(IssueList(output)) |->
        <<IssueList(output)[i]["series_code"], GetOpt(IssueList(output)[i], "issue_number")>>]

\* C11: the object-oriented output is one "series" object for each series of
\* the series index, then one "list" object as its last element; the data
\* of the list is one "issue" object for each (series, issue) bucket, and
\* the series_code of an issue object is the code of the series object of
\* its series.
C11_ObjectStructure ==
    pc = "done" =>
        \A o \in 1..Len(objects) :
            /\ Len(objects[o]) = Len(organized_data[1].series) + 1
            /\ \A k \in 1..(Len(objects[o]) - 1) :
                  /\ objects[o][k]["object"] = "series"
                  /\ HasKey(organized_data[1].series, objects[o][k]["name"])
                  /\ objects[o][k]["code"] = generate_code(objects[o][k]["name"], "ser")
                  /\ \A j \in 1..(Len(objects[o]) - 1) :
                        objects[o][j]["name"] = objects[o][k]["name"] => j = k
            /\ objects[o][Len(objects[o])]["object"] = "list"
            /\ \A i \in 1..Len(IssueList(objects[o])) :
                  IssueList(objects[o])[i]["object"] = "issue"
            /\ EmittedIssueObjects(objects[o])
                  = ExpectedIssueObjects(objects[o], organized_data[1].series,
                                         Len(objects[o]) - 1)

\* C11 witness: an output of three series objects, two of them with the
\* code ser_alpha, and a list of three issue objects, one with a number
C11_Witness ==
    /\ pc = "done"
    /\ Len(objects) = 1
    /\ Len(objects[1]) = 4
    /\ [k \in 1..3 |-> objects[1][k]["code"]] = <<"ser_alpha", "ser_zeta", "ser_alpha">>
    /\ EmittedIssueObjects(objects[1])
         = <<<<"ser_alpha", <<2>>>>, <<"ser_zeta", <<1>>>>, <<"ser_alpha", << >>>>>>

\* the names stand in ascending order, each once
Ascending(names) == \A i, j \in 1..Len(names) : i < j => StrLess(names[i], names[j])

\* the names of the series objects of an object-oriented output
SeriesNames(output) == [k \in 1..(Len(output) - 1) |-> output[k]["name"]]

\* C12: both projections emit the series in lexicographic order of their
\* normalized names, whatever the order of the records of the batch: the
\* series objects and, series by series, the issue objects of the
\* object-oriented output, and the series map and the combos map of the
\* hierarchical output.
C12_SeriesOrder ==
    pc = "done" =>
        /\ \A h \in 1..Len(hierarchical) :
              /\ Ascending(DictKeys(hierarchical[h].series))
              /\ Ascending(DictKeys(hierarchical[h].combos))
        /\ \A o \in 1..Len(objects) :
              /\ Ascending(SeriesNames(objects[o]))
              /\ EmittedIssueObjects(objects[o])
                    = ExpectedIssueObjects(objects[o], organized_data[1].series,
                                           Len(objects[o]) - 1)

\* C12 witness: the records arrived as alpha, Zeta, Alpha and both outputs
\* have the series as Alpha, Zeta, alpha
C12_Witness ==
    /\ pc = "done"
    /\ Len(data) = 3
    /\ [k \in 1..3 |-> Get(data[k], "series", "")] = <<"alpha", "Zeta", "Alpha: Reborn">>
    /\ Len(hierarchical) = 1
    /\ DictKeys(hierarchical[1].series) = <<"Alpha", "Zeta", "alpha">>
    /\ Len(objects) = 1
    /\ SeriesNames(objects[1]) = <<"Alpha", "Zeta", "alpha">>

\* the record at position k of the batch is a combo record of the series
\* name with the title title
IsComboOf(k, name, title) ==
    /\ ~is_publisher_item(data[k])
    /\ HasSeries(data[k])
    /\ HasComboTitle(data[k])
    /\ normalize_series_name(data[k]["series"]) = name
    /\ data[k]["title"] = title

\* C20: after reconcile the combo index has one entry for a (normalized
\* series, combo title) pair, and its record and its issues are those of
\* the last combo record of the batch with that series and title.
C20_ComboLastWins ==
    pc = "done" =>
        LET combos == organized_data[1].combos
        IN /\ \A x, y \in ComboSlots(combos) :
                 (combos[x[1]][1] = combos[y[1]][1]
                    /\ combos[x[1]][2][x[2]][1] = combos[y[1]][2][y[2]][1]) => x = y
           /\ \A x \in ComboSlots(combos) :
                 \E k \in 1..Len(data) :
                    /\ IsComboOf(k, combos[x[1]][1], combos[x[1]][2][x[2]][1])
                    /\ \A j \in (k + 1)..Len(data) :
                          ~IsComboOf(j, combos[x[1]][1], combos[x[1]][2][x[2]][1])
                    /\ ComboSlotItem(combos, x) = data[k]
                    /\ ComboSlotIssues(combos, x) = extract_combo_issues(data[k])
           /\ \A k \in 1..Len(data) :
                 IsComboOf(k, normalize_series_name(Get(data[k], "series", "")),
                           Get(data[k], "title", ""))
                 => \E x \in ComboSlots(combos) :
                       /\ combos[x[1]][1] = normalize_series_name(data[k]["series"])
                       /\ combos[x[1]][2][x[2]][1] = data[k]["title"]

\* C20 witness: "Zeta Pack" arrived for "Zeta" with issue 3 and then for
\* "Zeta - Extra" with issue 4; the index has the one combo of the second
\* record
C20_Witness ==
    /\ pc = "done"
    /\ Len(data) = 2
    /\ [k \in 1..2 |-> Get(data[k], "issue", 0)] = <<3, 4>>
    /\ [k \in 1..2 |-> Get(data[k], "title", "")] = <<"Zeta Pack", "Zeta Pack">>
    /\ ComboSlots(organized_data[1].combos) = {<<1, 1>>}
    /\ organized_data[1].combos[1][1] = "Zeta"
    /\ ComboSlotItem(organized_data[1].combos, <<1, 1>>) = data[2]
    /\ ComboSlotIssues(organized_data[1].combos, <<1, 1>>) = <<4>>

\* the characters a-z, 0-9 and the underscore
BodyChars == CharsOf(LowerChars) \cup Digits \cup {"_"}

\* letters and digits
Alphanumeric == CharsOf(UpperChars) \cup CharsOf(LowerChars) \cup Digits

\* what follows prefix and "_" in a code
CodeBody(code, prefix) == SubSeq(code, Len(prefix) + 2, Len(code))

\* C13: generate_code returns prefix, "_" and a body; the body has only the
\* characters a-z, 0-9 and single underscores and 1 to 50 characters, and is
\* "unknown" for a text that is empty or has no letter or digit; equal
\* calls return equal codes, and "Example Series!" with "ser" gives
\* "ser_example_series".
C13_StableCode ==
    /\ generate_code("Example Series!", "ser") = "ser_example_series"
    /\ call["fn"] = "generate_code" =>
          /\ AllSame(returned)
          /\ \A i \in 1..Len(returned) :
                /\ StartsAt(returned[i], 1, call["prefix"] \o "_")
                /\ Len(CodeBody(returned[i], call["prefix"])) \in 1..50
                /\ \A j \in 1..Len(CodeBody(returned[i], call["prefix"])) :
                      Ch(CodeBody(returned[i], call["prefix"]), j) \in BodyChars
                /\ ~Contains(CodeBody(returned[i], call["prefix"]), "__")
                /\ (\A j \in 1..Len(call["text"]) : Ch(call["text"], j) \notin Alphanumeric)
                      => CodeBody(returned[i], call["prefix"]) = "unknown"

\* C13 witness: two calls on "Example Series!" and "ser" have returned
\* "ser_example_series"
C13_Witness ==
    /\ call["fn"] = "generate_code"
    /\ call["text"] = "Example Series!"
    /\ call["prefix"] = "ser"
    /\ returned = <<"ser_example_series", "ser_example_series">>

\* the keywords of the variant types
DescriptorKeywords ==
    {"variant", "regular", "default", "blank", "homage", "wraparound", "hand painted",
     "hand-painted", "sketch", "directors cut", "director's cut", "action figure", "poster"}

\* the item has no language, no keyword of a variant type in its title, no
\* cover artist and no binding other than Paperback
IsPlainItem(item) ==
    /\ Get(item, "language", "") = ""
    /\ \A kw \in DescriptorKeywords : ~Contains(Lower(Get(item, "title", "")), kw)
    /\ Get(item, "cover_artist", "") = ""
    /\ Get(item, "binding", "") \in {"", "Paperback"}

\* C16: extract_variant_info returns "Standard" exactly for an item without
\* language, without keyword of a variant type in its title, without cover
\* artist and with no binding or Paperback; for every other item it returns
\* a non-empty descriptor other than "Standard".
C16_DefaultDescriptor ==
    (call["fn"] = "extract_variant_info" /\ returned # << >>) =>
        /\ returned[1] = "Standard" <=> IsPlainItem(call["item"])
        /\ returned[1] # ""

\* the text is one or more digits
IsNumeric(text) == text # "" /\ \A j \in 1..Len(text) : Ch(text, j) \in Digits

\* C17: a value of normalize_series_name that differs from the input is
\* longer than 2 characters and is not purely numeric.
C17_PlausibilityGuard ==
    (/\ call["fn"] = "normalize_series_name"
     /\ returned # << >>
     /\ returned[1] # call["series_name"])
    => Len(returned[1]) > 2 /\ ~IsNumeric(returned[1])

\* the part of the name before its first character of C, stripped
BeforeFirst(name, C) ==
    Strip(SubSeq(name, 1, Min({i \in 1..Len(name) : Ch(name, i) \in C} \cup {Len(name) + 1}) - 1))

\* the rule of the separators C cuts the name: a separator stands in the
\* name with text behind it and more than 2 characters remain before it
SeparatorCuts(name, C) ==
    /\ \E i \in 1..(Len(name) - 1) : Ch(name, i) \in C
    /\ Min({i \in 1..Len(name) : Ch(name, i) \in C}) < Len(name)
    /\ Len(BeforeFirst(name, C)) > 2

\* the places of a last word "Origins", in any case, behind whitespace
OriginsPlaces(name) ==
    {p \in 2..Len(name) :
        /\ Lower(SubSeq(name, p, Len(name))) = "origins" \o SubSeq(name, p + 7, Len(name))
        /\ p + 6 <= Len(name)
        /\ \A j \in (p + 7)..Len(name) : Ch(name, j) \in WhiteSpace
        /\ Ch(name, p - 1) \in WhiteSpace}

\* the name without its last word "Origins", stripped
BeforeOrigins(name) == Strip(SubSeq(name, 1, Min(OriginsPlaces(name) \cup {Len(name) + 1}) - 1))

\* the "Origins" rule cuts the name
OriginsCuts(name) == OriginsPlaces(name) # {} /\ Len(BeforeOrigins(name)) > 2

\* the name after the first rule that cuts it, of the rules "Origins",
\* colon, dash in this order, or the name itself
AfterOneRule(name) ==
    IF OriginsCuts(name) THEN BeforeOrigins(name)
    ELSE IF SeparatorCuts(name, {":"}) THEN BeforeFirst(name, {":"})
    ELSE IF SeparatorCuts(name, Dashes) THEN BeforeFirst(name, Dashes)
    ELSE name

\* C18: normalize_series_name applies at most one of its three rules, the
\* first that cuts in the order trailing "Origins", first colon, first dash
\* or en dash, and returns the name with that one cut or unchanged;
\* "Solomon: Born Again" gives "Solomon", "Raj Rahman - Variant" gives
\* "Raj Rahman", and a name with a dash and a later colon is cut at the
\* colon only.
C18_SingleRule ==
    /\ normalize_series_name("Solomon: Born Again") = "Solomon"
    /\ normalize_series_name("Raj Rahman - Variant") = "Raj Rahman"
    /\ normalize_series_name("Spider-Man: Born Again") = "Spider-Man"
    /\ (call["fn"] = "normalize_series_name" /\ returned # << >>)
          => returned[1] = AfterOneRule(call["series_name"])

\* C18 witness: a name with a dash and a later colon has been cut at the
\* colon
C18_Witness ==
    /\ call["fn"] = "normalize_series_name"
    /\ call["series_name"] = "Spider-Man: Born Again"
    /\ returned = <<"Spider-Man">>

\* every record of the batch that is no publisher and has a non-empty
\* series is a Variant or a Combo of the result
AllPlaced ==
    \A k \in 1..Len(data) :
        (~is_publisher_item(data[k]) /\ HasSeries(data[k])) =>
            \/ \E x \in VariantSlots(organized_data[1].series) :
                  SlotItem(organized_data[1].series, x) = data[k]
            \/ \E x \in ComboSlots(organized_data[1].combos) :
                  ComboSlotItem(organized_data[1].combos, x) = data[k]

C15_MalformedBatch ==
    (\E k \in 1..Len(data) : ~IsMapping(data[k])) => (pc # "done" /\ organized_data = << >>)

\* the issue of a record: its issue field, or else the number of the first
\* of the patterns "Issue #N", "Book N", "Vol. N" that its title matches,
\* or none
ExpectedIssue(item) ==
    IF Has(item, "issue") THEN <<item["issue"]>>
    ELSE IF SearchNumber(Get(item, "title", ""), "issue", FALSE, 1, TRUE) # None
         THEN SearchNumber(Get(item, "title", ""), "issue", FALSE, 1, TRUE)
    ELSE IF SearchNumber(Get(item, "title", ""), "book", FALSE, 1, FALSE) # None
         THEN SearchNumber(Get(item, "title", ""), "book", FALSE, 1, FALSE)
    ELSE SearchNumber(Get(item, "title", ""), "vol", TRUE, 0, FALSE)

\* C19: the bucket of a record that is no combo is its issue field when
\* the field is there, whatever the title; or else the number of the first
\* pattern that matches the title, in the order "Issue #N", "Book N",
\* "Vol. N"; or else the bucket without number.
C19_IssueDetermination ==
    /\ ItemIssue([title |-> "Yagyaa Issue #7"]) = <<7>>
    /\ ItemIssue([title |-> "Yagyaa Issue #7", issue |-> 0]) = <<0>>
    /\ ItemIssue([title |-> "Yagyaa Book 2 Issue 5"]) = <<5>>
    /\ ItemIssue([title |-> "Yagyaa Vol. 3 Book 2"]) = <<2>>
    /\ ItemIssue([title |-> "Yagyaa Vol. 3"]) = <<3>>
    /\ ItemIssue([title |-> "???"]) = << >>
    /\ \A x \in VariantSlots(series_structure) :
          series_structure[x[1]][2][x[2]][1] = ExpectedIssue(SlotItem(series_structure, x))

\* C19 witness: "Yagyaa Book 2 Issue 5" is in bucket 5 and the record with
\* the title "Yagyaa Issue #7" and the issue field 0 is in bucket 0
C19_Witness ==
    /\ pc = "done"
    /\ Len(data) = 2
    /\ [k \in 1..2 |-> Get(data[k], "title", "")]
         = <<"Yagyaa Book 2 Issue 5", "Yagyaa Issue #7">>
    /\ [k \in 1..2 |-> GetOpt(data[k], "issue")] = <<<< >>, <<0>>>>
    /\ Len(organized_data[1].series) = 1
    /\ DictKeys(organized_data[1].series[1][2]) = <<<<0>>, <<5>>>>

\* the record has a name field and no title field
IsPublisherRecord(r) == Has(r, "name") /\ ~Has(r, "title")

\* C21: a record with a name field and without a title field is in neither
\* index, during the loop and after it, also when it has a series field; so
\* no record is both a Publisher and a Variant or a Combo.
C21_PublisherPrecedence ==
    \A k \in 1..Len(data) :
        IsPublisherRecord(data[k]) =>
            /\ \A x \in VariantSlots(series_structure) :
                  SlotItem(series_structure, x) # data[k]
            /\ \A x \in ComboSlots(combo_structure) :
                  ComboSlotItem(combo_structure, x) # data[k]

\* C21 witness: a batch with a publisher record of the series "Yagyaa" and
\* a placed record of the same series has been reconciled
C21_Witness ==
    /\ pc = "done"
    /\ \E k \in 1..Len(data) :
          IsPublisherRecord(data[k]) /\ Get(data[k], "series", "") = "Yagyaa"
    /\ \E s \in 1..Len(organized_data[1].series) :
          organized_data[1].series[s][1] = "Yagyaa"

\* the record is one that must become a Combo
IsComboRecord(r) == ~is_publisher_item(r) /\ is_combo_item(r) /\ HasSeries(r)

\* the keys of an index, and whether no key is there twice
KeySet(d) == {d[k][1] : k \in 1..Len(d)}
KeysDistinct(d) == \A i, j \in 1..Len(d) : d[i][1] = d[j][1] => i = j

\* C22: after reconcile the keys of the series index are the normalized
\* names of the records that are no combos and were placed, the keys of the
\* combo index are the normalized names of the combo records, and no
\* series, issue bucket or combo map is empty.
C22_IndexKeys ==
    pc = "done" =>
        /\ KeySet(organized_data[1].series)
             = {normalize_series_name(data[k]["series"]) :
                  k \in {i \in 1..Len(data) : IsVariantRecord(data[i])}}
        /\ KeySet(organized_data[1].combos)
             = {normalize_series_name(data[k]["series"]) :
                  k \in {i \in 1..Len(data) : IsComboRecord(data[i])}}
        /\ KeysDistinct(organized_data[1].series)
        /\ KeysDistinct(organized_data[1].combos)
        /\ \A s \in 1..Len(organized_data[1].series) :
              /\ organized_data[1].series[s][2] # << >>
              /\ KeysDistinct(organized_data[1].series[s][2])
              /\ \A i \in 1..Len(organized_data[1].series[s][2]) :
                    organized_data[1].series[s][2][i][2] # << >>
        /\ \A s \in 1..Len(organized_data[1].combos) :
              organized_data[1].combos[s][2] # << >>

\* C22 witness: a record with the raw name "Yagyaa Origins" has given the
\* only key "Yagyaa" of the series index and a combo record the only key
\* "Yagyaa" of the combo index
C22_Witness ==
    /\ pc = "done"
    /\ KeySet(organized_data[1].series) = {"Yagyaa"}
    /\ KeySet(organized_data[1].combos) = {"Yagyaa"}
    /\ \E k \in 1..Len(data) : IsVariantRecord(data[k]) /\ data[k]["series"] = "Yagyaa Origins"
    /\ \E k \in 1..Len(data) : IsComboRecord(data[k])

\* the records of an index
ItemsOf(org) ==
    {SlotItem(org.series, x) : x \in VariantSlots(org.series)}
    \cup {ComboSlotItem(org.combos, x) : x \in ComboSlots(org.combos)}

\* the elements of a batch
Elements(batch) == {batch[k] : k \in 1..Len(batch)}

\* C23: the result of a call of organize_comic_data is the result of the
\* call run alone on its batch, whether the other call has not begun, is in
\* its loop or has returned, and holds records of its own batch only.
C23_Independence ==
    /\ pc = "done" =>
          /\ organized_data[1] = organize_comic_data(data)
          /\ ItemsOf(organized_data[1]) \subseteq Elements(data)
    /\ returned # << >> =>
          /\ returned[1] = organize_comic_data(call.data)
          /\ ItemsOf(returned[1]) \subseteq Elements(call.data)

\* C23 witness: the second call has returned a result with a Variant and a
\* Combo under "Yagyaa" while the first call is in its loop, with a record
\* under "Yagyaa" placed and a record still to come
C23_Witness ==
    /\ pc = "loop"
    /\ idx = 2
    /\ Len(data) = 2
    /\ KeySet(series_structure) = {"Yagyaa"}
    /\ returned # << >>
    /\ KeySet(returned[1].series) = {"Yagyaa"}
    /\ KeySet(returned[1].combos) = {"Yagyaa"}

\* the places of the variant objects of an output: <<issue, position>>
VariantPlaces(output) ==
    UNION {{<<i, j>> : j \in 1..Len(IssueList(output)[i]["variants"])} :
              i \in 1..Len(IssueList(output))}

\* C24: in one object-oriented output two different variant objects have
\* different codes.
C24_VariantCodesUnique ==
    \A o \in 1..Len(objects) :
        \A x, y \in VariantPlaces(objects[o]) :
            IssueList(objects[o])[x[1]]["variants"][x[2]]["code"]
              = IssueList(objects[o])[y[1]]["variants"][y[2]]["code"]
            => x = y

\* C25: in one object-oriented output two different series objects have
\* different codes and two different issue objects have different codes.
C25_SeriesIssueCodesUnique ==
    \A o \in 1..Len(objects) :
        /\ \A j, k \in 1..(Len(objects[o]) - 1) :
              objects[o][j]["code"] = objects[o][k]["code"] => j = k
        /\ \A j, k \in 1..Len(IssueList(objects[o])) :
              IssueList(objects[o])[j]["code"] = IssueList(objects[o])[k]["code"] => j = k

\* C26: the value of normalize_series_name is a name that
\* normalize_series_name leaves as it is.
C26_Idempotent ==
    (call["fn"] = "normalize_series_name" /\ returned # << >>)
        => normalize_series_name(returned[1]) = returned[1]

RECURSIVE HierEntries(_, _)
\* the <<series, issue key, variants>> entries of the first n series of a
\* hierarchical output, in its order
HierEntries(series, n) ==
    IF n = 0 THEN << >>
    ELSE HierEntries(series, n - 1)
         \o [i \in 1..Len(series[n][2]) |->
               <<series[n][1], series[n][2][i][1], series[n][2][i][2]>>]

\* the hierarchical key of the issue number of an issue object
KeyOfIssueObject(obj) ==
    IF Has(obj, "issue_number") THEN "issue_" \o ToStr(obj["issue_number"])
    ELSE "no_issue"

\* an issue object and a hierarchical entry stand for the same bucket with
\* the same variants in the same order
SameBucket(obj, entry) ==
    /\ KeyOfIssueObject(obj) = entry[2]
    /\ obj["series_code"] = generate_code(entry[1], "ser")
    /\ obj["name"] = (IF Has(obj, "issue_number")
                      THEN entry[1] \o " #" \o ToStr(obj["issue_number"])
                      ELSE entry[1])
    /\ Len(obj["variants"]) = Len(entry[3])
    /\ \A j \in 1..Len(entry[3]) :
          /\ obj["variants"][j]["name"] = obj["name"] \o " - " \o entry[3][j].variant
          /\ GetOpt(obj["variants"][j], "url") = entry[3][j].url
          /\ GetOpt(obj["variants"][j], "price") = entry[3][j].price

\* C27: for one result, the issue objects of the object-oriented output and
\* the (series, issue key) entries of the hierarchical output are as many
\* and in the same order, and the variants of an issue object are as many
\* and in the same order as the variants of its entry.
C27_ProjectionsAgree ==
    \A o \in 1..Len(objects) : \A h \in 1..Len(hierarchical) :
        /\ Len(IssueList(objects[o]))
             = Len(HierEntries(hierarchical[h].series, Len(hierarchical[h].series)))
        /\ \A i \in 1..Len(IssueList(objects[o])) :
              SameBucket(IssueList(objects[o])[i],
                         HierEntries(hierarchical[h].series,
                                     Len(hierarchical[h].series))[i])

\* C27 witness: both outputs of a result with two series: one with two
\* different variants in its issue 1, the other with the bucket without
\* number
C27_Witness ==
    /\ objects # << >>
    /\ hierarchical # << >>
    /\ [i \in 1..Len(IssueList(objects[1])) |-> KeyOfIssueObject(IssueList(objects[1])[i])]
         = <<"no_issue", "issue_1">>
    /\ Len(IssueList(objects[1])[2]["variants"]) = 2
    /\ IssueList(objects[1])[2]["variants"][1]["name"]
         # IssueList(objects[1])[2]["variants"][2]["name"]

C28_RunToFile ==
    \A o \in Origins :
        runs[o].pc = "done" =>
            /\ runs[o].latest_file = runs[o].filename
            /\ runs[o].count = Some(Len(DictGet(files, runs[o].filename[1]).items))

\* C30: each URL is requested at most once in a crawl, the start URL too:
\* no two requests of the crawl have the same URL.
C30_RequestedOnce ==
    \A i \in 1..Len(requests) : \A j \in 1..Len(requests) :
        requests[i].url = requests[j].url => i = j

\* the requests that the step makes
NewRequests == {requests'[k] : k \in (Len(requests) + 1)..Len(requests')}

\* C30, the steps of parse: a URL is followed only if it is not in
\* visited_urls and is in visited_urls when it is followed; a call of parse
\* makes at most one request whose callback is parse, and none when got_404
\* is set before it.
C30_ParseSteps ==
    [][/\ \A r \in NewRequests : r.url \notin visited_urls /\ r.url \in visited_urls'
       /\ Cardinality({r \in NewRequests : r.callback = "parse"}) <= 1
       /\ got_404 => {r \in NewRequests : r.callback = "parse"} = {}]_vars

====
